---- MODULE Spec2Model ----
(***************************************************************************)
(* Trustwise policy checker: the aggregation strategies                    *)
(* (AggregationStrategy.ts), the judge client with its circuit breaker     *)
(* and retry loop (JudgeService) and the policy orchestrator               *)
(* (PolicyEngine.ts).                                                      *)
(*                                                                         *)
(* Numbers.  Rule weights and thresholds are decimal literals with one     *)
(* fractional digit; the model carries them as tenths (3 stands for 0.3)   *)
(* and the weighted strategy converts them to IEEE-754 binary64 values     *)
(* and computes on those exactly as JavaScript does (round to nearest,     *)
(* ties to even).  A binary64 value is [m, e] with value m * 2^e, m a      *)
(* 53-bit integer kept as little-endian limbs of 15 bits, or m = <<>> for  *)
(* zero.                                                                   *)
(***************************************************************************)
EXTENDS Integers, Sequences, FiniteSets, TLC

VARIABLES
  aggResults,      \* ruleResults handed to strategy.aggregate
  aggPolicy,       \* policy handed to strategy.aggregate
  aggOut,          \* AggregationResult of the latest aggregate call, or NoResult
  aggFirst,        \* AggregationResult of the first aggregate call, or NoResult
  judgeMode,       \* "mock" (mockMode), "live" (OpenAI client) or "nokey" (no client)
  circuitBreaker,  \* JudgeService.circuitBreaker
  rateLimitState,  \* JudgeService.rateLimitState
  metrics,         \* JudgeService.metrics
  calls,           \* the JudgeService.evaluate calls in flight, by call slot
  resolved,        \* the JudgeResults returned by the latest step, in order
  failRun,         \* history: evaluate calls that failed since the last success
  halfOpenSince,   \* history: metrics.successes when the circuit last became HALF_OPEN
  probe,           \* history: when the circuit opened and which calls it admitted
  emitted,         \* the notifications emitted by the latest step, in order
  now,             \* Date.now(), in clock ticks
  configPolicy,    \* PolicyEngine: config.policy
  runtimePolicy,   \* PolicyEngine: runtimePolicy, or NoPolicy for null
  configFile,      \* policy-config.json: the policy and settings saved there
  policyOps,       \* history: the PolicyEngine operations called so far, in order
  parallelEvaluation,  \* PolicyEngine: config.settings.parallelEvaluation
  evaluation,      \* the PolicyEngine.evaluate call in flight, or the last one
  verdict,         \* the PolicyVerdict the last PolicyEngine.evaluate returned
  providerBehaviour,  \* what the provider does with the judge call of each rule
  firstVerdict,    \* history: the PolicyVerdict the engine constructed first returned
  opResult,        \* what the latest rule operation or pure function returned
  storeCalls       \* the ConfigService calls in flight, in the order they were made

aggVars == <<aggResults, aggPolicy, aggOut, aggFirst>>

judgeVars == <<judgeMode, circuitBreaker, rateLimitState, metrics, calls, resolved, failRun,
               halfOpenSince, probe, emitted, now>>

configVars == <<configPolicy, runtimePolicy, configFile, parallelEvaluation>>

runVars == <<providerBehaviour, firstVerdict, opResult, storeCalls>>

engineVars == <<configPolicy, runtimePolicy, configFile, policyOps, parallelEvaluation,
                evaluation, verdict, providerBehaviour, firstVerdict, opResult, storeCalls>>

vars == <<aggResults, aggPolicy, aggOut, aggFirst,
          judgeMode, circuitBreaker, rateLimitState, metrics, calls, resolved, failRun,
          halfOpenSince, probe, emitted, now,
          configPolicy, runtimePolicy, configFile, policyOps, parallelEvaluation,
          evaluation, verdict, providerBehaviour, firstVerdict, opResult, storeCalls>>

(***************************************************************************)
(* Bounds                                                                  *)
(***************************************************************************)
MaxRules == 3        \* longest rule list / rule-result list considered
MaxPolicyRules == 2  \* most rules of the policy the engine evaluates
MaxCalls == 2        \* JudgeService.evaluate calls in flight at once
MaxRequests == 4     \* JudgeService.evaluate calls made in one behaviour
MaxTime == 4         \* clock ticks that pass in one behaviour

(***************************************************************************)
(* IEEE-754 binary64 arithmetic on non-negative values                     *)
(***************************************************************************)
MantBits == 53
LimbBits == 15
LimbBase == 32768

Pow2 == [n \in 0..LimbBits |->
          IF n = 0 THEN 1 ELSE IF n = 1 THEN 2 ELSE IF n = 2 THEN 4
          ELSE IF n = 3 THEN 8 ELSE IF n = 4 THEN 16 ELSE IF n = 5 THEN 32
          ELSE IF n = 6 THEN 64 ELSE IF n = 7 THEN 128 ELSE IF n = 8 THEN 256
          ELSE IF n = 9 THEN 512 ELSE IF n = 10 THEN 1024
          ELSE IF n = 11 THEN 2048 ELSE IF n = 12 THEN 4096
          ELSE IF n = 13 THEN 8192 ELSE IF n = 14 THEN 16384 ELSE 32768]

Limb(a, i) == IF i >= 1 /\ i <= Len(a) THEN a[i] ELSE 0

RECURSIVE BNorm(_)
BNorm(s) ==
  IF s = <<>> THEN <<>>
  ELSE IF s[Len(s)] # 0 THEN s ELSE BNorm(SubSeq(s, 1, Len(s) - 1))

BFromNat(n) == BNorm(<<n % LimbBase, n \div LimbBase>>)

RECURSIVE BAddC(_, _, _, _)
BAddC(a, b, i, c) ==
  IF i > Len(a) /\ i > Len(b) THEN (IF c = 1 THEN <<1>> ELSE <<>>)
  ELSE LET t == Limb(a, i) + Limb(b, i) + c
       IN <<t % LimbBase>> \o BAddC(a, b, i + 1, t \div LimbBase)

BAdd(a, b) == BAddC(a, b, 1, 0)

RECURSIVE BGeFrom(_, _, _)
BGeFrom(a, b, i) ==
  IF i = 0 THEN TRUE
  ELSE IF a[i] # b[i] THEN a[i] > b[i] ELSE BGeFrom(a, b, i - 1)

BGe(a, b) == IF Len(a) # Len(b) THEN Len(a) > Len(b) ELSE BGeFrom(a, b, Len(a))

RECURSIVE BSubC(_, _, _, _)
BSubC(a, b, i, c) ==
  IF i > Len(a) THEN <<>>
  ELSE LET t == a[i] - Limb(b, i) - c
       IN <<t % LimbBase>> \o BSubC(a, b, i + 1, IF t < 0 THEN 1 ELSE 0)

BSub(a, b) == BNorm(BSubC(a, b, 1, 0))

BShl(a, k) ==
  LET q == k \div LimbBits
      s == k % LimbBits
  IN BNorm([i \in 1..(Len(a) + q + 1) |->
       IF i <= q THEN 0
       ELSE ((Limb(a, i - q) * Pow2[s]) % LimbBase)
            + ((Limb(a, i - q - 1) * Pow2[s]) \div LimbBase)])

BShr(a, k) ==
  LET q == k \div LimbBits
      s == k % LimbBits
  IN IF q >= Len(a) THEN <<>>
     ELSE BNorm([i \in 1..(Len(a) - q) |->
            (Limb(a, i + q) \div Pow2[s])
            + ((Limb(a, i + q + 1) % Pow2[s]) * Pow2[LimbBits - s])])

BBit(a, i) ==
  (Limb(a, ((i - 1) \div LimbBits) + 1) \div Pow2[(i - 1) % LimbBits]) % 2

BitLen(a) ==
  IF a = <<>> THEN 0
  ELSE (Len(a) - 1) * LimbBits
       + (CHOOSE n \in 1..LimbBits :
            a[Len(a)] >= Pow2[n - 1] /\ a[Len(a)] < Pow2[n])

DZero == [m |-> <<>>, e |-> 0]

\* Rounding to MantBits bits, ties to even: kept are the leading MantBits
\* bits of a longer M, k the number of bits dropped, up whether they round up.
RoundKept(kept, up, E, k) ==
  IF ~up THEN [m |-> kept, e |-> E + k]
  ELSE IF BitLen(BAdd(kept, <<1>>)) > MantBits
  THEN [m |-> BShr(BAdd(kept, <<1>>), 1), e |-> E + k + 1]
  ELSE [m |-> BAdd(kept, <<1>>), e |-> E + k]

RoundLong(M, E, sticky, k, kept) ==
  RoundKept(kept,
            BBit(M, k) = 1
              /\ (sticky \/ BBit(kept, 1) = 1 \/ \E i \in 1..(k - 1) : BBit(M, i) = 1),
            E, k)

RoundLen(M, E, sticky, L) ==
  IF L <= MantBits
  THEN [m |-> BShl(M, MantBits - L), e |-> E - (MantBits - L)]
  ELSE RoundLong(M, E, sticky, L - MantBits, BShr(M, L - MantBits))

\* The binary64 value nearest to (M + fraction) * 2^E, ties to even; sticky
\* says that a non-zero fraction below M was dropped.
RoundBits(M, E, sticky) == RoundLen(M, E, sticky, BitLen(M))

DFromNat(n) == IF n = 0 THEN DZero ELSE RoundBits(BFromNat(n), 0, FALSE)

DAddAt(a, b, e) == RoundBits(BAdd(BShl(a.m, a.e - e), BShl(b.m, b.e - e)), e, FALSE)

\* a + b
DAdd(a, b) ==
  IF a.m = <<>> THEN b
  ELSE IF b.m = <<>> THEN a
  ELSE DAddAt(a, b, IF a.e < b.e THEN a.e ELSE b.e)

\* a * 0.5
DHalf(a) == IF a.m = <<>> THEN a ELSE [m |-> a.m, e |-> a.e - 1]

\* One step of the long division by d: ge says that the remainder reaches d;
\* the quotient gains the bit, the remainder loses d and moves up by shift.
DivBit(st, d, ge, shift) ==
  [q |-> BAdd(BShl(st.q, 1), IF ge THEN <<1>> ELSE <<>>),
   r |-> BShl(IF ge THEN BSub(st.r, d) ELSE st.r, shift)]

RECURSIVE DivLoop(_, _, _)
DivLoop(st, d, n) ==
  IF n = 0 THEN DivBit(st, d, BGe(st.r, d), 0)
  ELSE IF BGe(st.r, d) THEN DivLoop(DivBit(st, d, TRUE, 1), d, n - 1)
  ELSE DivLoop(DivBit(st, d, FALSE, 1), d, n - 1)

DDivOf(a, b, dv) == RoundBits(dv.q, a.e - b.e - (MantBits + 2), dv.r # <<>>)

\* a / b, b > 0
DDiv(a, b) ==
  IF a.m = <<>> THEN DZero
  ELSE DDivOf(a, b, DivLoop([q |-> <<>>, r |-> a.m], b.m, MantBits + 2))

\* a >= b
DGe(a, b) ==
  IF b.m = <<>> THEN TRUE
  ELSE IF a.m = <<>> THEN FALSE
  ELSE IF a.e # b.e THEN a.e > b.e ELSE BGe(a.m, b.m)

\* a > 0
DPos(a) == a.m # <<>>

\* The binary64 value of the decimal literal k/10
Tenths == [k \in 0..10 |-> DDiv(DFromNat(k), DFromNat(10))]

(***************************************************************************)
(* Types (types/index.ts)                                                  *)
(***************************************************************************)
Verdicts == {"PASS", "FAIL", "UNCERTAIN"}
Actions == {"allow", "block", "warn", "redact"}
Strategies == {"all", "any", "weighted_threshold"}
NoThreshold == -1    \* policy.threshold is undefined
NoResult == [final_verdict |-> "NONE"]

toUpperCase == [a \in Actions |->
  IF a = "allow" THEN "ALLOW" ELSE IF a = "block" THEN "BLOCK"
  ELSE IF a = "warn" THEN "WARN" ELSE "REDACT"]

(***************************************************************************)
(* AggregationStrategy.ts                                                  *)
(***************************************************************************)
ACTION_PRIORITY == [a \in Actions |->
  IF a = "block" THEN 3 ELSE IF a = "redact" THEN 2
  ELSE IF a = "warn" THEN 1 ELSE 0]

filter(ruleResults, v) == SelectSeq(ruleResults, LAMBDA r : r.verdict = v)

RECURSIVE determineFinalActionLoop(_, _, _, _)
determineFinalActionLoop(ruleResults, i, highestPriority, finalAction) ==
  IF i > Len(ruleResults) THEN finalAction
  ELSE LET result == ruleResults[i]
           priority == ACTION_PRIORITY[result.action]
       IN IF result.verdict = "FAIL" /\ priority > highestPriority
          THEN determineFinalActionLoop(ruleResults, i + 1, priority, result.action)
          ELSE determineFinalActionLoop(ruleResults, i + 1, highestPriority, finalAction)

determineFinalAction(ruleResults, defaultAction) ==
  toUpperCase[determineFinalActionLoop(ruleResults, 1,
                 ACTION_PRIORITY[defaultAction], defaultAction)]

Summary(ruleResults, strategy) ==
  [total_rules |-> Len(ruleResults),
   passed |-> Len(filter(ruleResults, "PASS")),
   failed |-> Len(filter(ruleResults, "FAIL")),
   uncertain |-> Len(filter(ruleResults, "UNCERTAIN")),
   strategy |-> strategy]

AllStrategyUncertainFails(ruleResults, policy) ==
  LET failedRules == filter(ruleResults, "FAIL")
      uncertainRules == filter(ruleResults, "UNCERTAIN")
  IN IF Len(failedRules) > 0
     THEN [final_verdict |-> determineFinalAction(failedRules, policy.default_action),
           passed |-> FALSE,
           summary |-> Summary(ruleResults, "all")]
     ELSE IF Len(uncertainRules) > 0
     THEN [final_verdict |-> "WARN", passed |-> FALSE,
           summary |-> Summary(ruleResults, "all")]
     ELSE [final_verdict |-> "ALLOW", passed |-> TRUE,
           summary |-> Summary(ruleResults, "all")]

AllStrategy(ruleResults, policy) ==
  LET failedRules == filter(ruleResults, "FAIL")
      uncertainRules == filter(ruleResults, "UNCERTAIN")
  IN IF Len(failedRules) > 0
     THEN [final_verdict |-> determineFinalAction(failedRules, policy.default_action),
           passed |-> FALSE,
           summary |-> Summary(ruleResults, "all")]
     ELSE IF Len(uncertainRules) > 0
     THEN [final_verdict |-> "WARN", passed |-> TRUE,
           summary |-> Summary(ruleResults, "all")]
     ELSE [final_verdict |-> "ALLOW", passed |-> TRUE,
           summary |-> Summary(ruleResults, "all")]

AnyStrategyNeedsTwo(ruleResults, policy) ==
  LET passedRules == filter(ruleResults, "PASS")
      failedRules == filter(ruleResults, "FAIL")
      uncertainRules == filter(ruleResults, "UNCERTAIN")
  IN IF Len(passedRules) > 1
     THEN [final_verdict |-> "ALLOW", passed |-> TRUE,
           summary |-> Summary(ruleResults, "any")]
     ELSE IF Len(uncertainRules) > 0
     THEN [final_verdict |-> "WARN", passed |-> FALSE,
           summary |-> Summary(ruleResults, "any")]
     ELSE [final_verdict |-> determineFinalAction(failedRules, policy.default_action),
           passed |-> FALSE,
           summary |-> Summary(ruleResults, "any")]

AnyStrategy(ruleResults, policy) ==
  LET passedRules == filter(ruleResults, "PASS")
      failedRules == filter(ruleResults, "FAIL")
      uncertainRules == filter(ruleResults, "UNCERTAIN")
  IN IF Len(passedRules) > 0
     THEN [final_verdict |-> "ALLOW", passed |-> TRUE,
           summary |-> Summary(ruleResults, "any")]
     ELSE IF Len(uncertainRules) > 0
     THEN [final_verdict |-> "WARN", passed |-> FALSE,
           summary |-> Summary(ruleResults, "any")]
     ELSE [final_verdict |-> determineFinalAction(failedRules, policy.default_action),
           passed |-> FALSE,
           summary |-> Summary(ruleResults, "any")]

\* policy.threshold || 0.7
thresholdOf(policy) ==
  IF policy.threshold = NoThreshold \/ policy.threshold = 0 THEN 7
  ELSE policy.threshold

\* result.weight || 1.0
weightOf(result) == IF result.weight = 0 THEN 10 ELSE result.weight

\* One iteration of the for loop of WeightedThresholdStrategy.aggregate:
\* acc is [totalWeight, passedWeight]
addWeight(acc, v, weight) ==
  [totalWeight |-> DAdd(acc.totalWeight, weight),
   passedWeight |->
     IF v = "FAIL" THEN acc.passedWeight
     ELSE DAdd(acc.passedWeight, IF v = "PASS" THEN weight ELSE DHalf(weight))]

\* The for loop from result i on
RECURSIVE weightLoop(_, _, _)
weightLoop(ruleResults, i, acc) ==
  IF i > Len(ruleResults) THEN acc
  ELSE weightLoop(ruleResults, i + 1,
                  addWeight(acc, ruleResults[i].verdict, Tenths[weightOf(ruleResults[i])]))

\* The result for a given outcome of score >= threshold. The summary's score
\* (a display value rounded to three decimals) is not carried; the threshold
\* used is.
weightedResult(ruleResults, policy, passed) ==
  [final_verdict |->
     IF passed THEN "ALLOW"
     ELSE IF Len(filter(ruleResults, "FAIL")) > 0
     THEN determineFinalAction(filter(ruleResults, "FAIL"), policy.default_action)
     ELSE "BLOCK",
   passed |-> passed,
   summary |-> [total_rules |-> Len(ruleResults),
                passed |-> Len(filter(ruleResults, "PASS")),
                failed |-> Len(filter(ruleResults, "FAIL")),
                uncertain |-> Len(filter(ruleResults, "UNCERTAIN")),
                strategy |-> "weighted_threshold",
                threshold |-> thresholdOf(policy)]]

\* score = totalWeight > 0 ? passedWeight / totalWeight : 0
scoreOf(w) ==
  IF DPos(w.totalWeight) THEN DDiv(w.passedWeight, w.totalWeight) ELSE DZero

WeightedThresholdStrategy(ruleResults, policy) ==
  weightedResult(ruleResults, policy,
    DGe(scoreOf(weightLoop(ruleResults, 1, [totalWeight |-> DZero, passedWeight |-> DZero])),
        Tenths[thresholdOf(policy)]))

\* createStrategy(name).aggregate(ruleResults, policy), for a known name
aggregate(ruleResults, policy) ==
  IF policy.evaluation_strategy = "all" THEN AllStrategy(ruleResults, policy)
  ELSE IF policy.evaluation_strategy = "any" THEN AnyStrategy(ruleResults, policy)
  ELSE WeightedThresholdStrategy(ruleResults, policy)

(***************************************************************************)
(* JudgeService                                                            *)
(***************************************************************************)
ErrorType == {"TIMEOUT", "RATE_LIMIT", "SERVER_ERROR", "AUTH_ERROR",
              "NETWORK_ERROR", "PARSE_ERROR", "UNKNOWN"}

\* The configuration the service is constructed with: the circuit opens
\* after FailureThreshold failures, stays open for ResetTimeoutMs clock ticks,
\* and a provider call is attempted MaxRetries times.
FailureThreshold == 2
ResetTimeoutMs == 2
MaxRetries == 2
HalfOpenSuccessThreshold == 2

NoError == [message |-> "", status |-> 0]

\* Errors are [message, status]; status 0 stands for an error without status.
\* The substrings categorizeError looks for in the lower-cased message:
Keywords(message) ==
  IF message = "Request timeout" THEN {"timeout"}
  ELSE IF message = "Rate limit exceeded" THEN {"rate limit"}
  ELSE IF message = "429 Too Many Requests (timeout while queued)"
    THEN {"timeout", "too many requests"}
  ELSE IF message = "Unauthorized" THEN {"unauthorized"}
  ELSE IF message = "getaddrinfo ENOTFOUND api.openai.com" THEN {"enotfound"}
  ELSE IF message = "Unexpected token < in JSON" THEN {"json"}
  ELSE IF message = "Rate limit reached. Retry after 20 seconds" THEN {"rate limit"}
  ELSE IF message = "Rate limit exceeded, retry-after: 5" THEN {"rate limit"}
  ELSE {}

\* The number that message.match(/retry.?after[:\s]+(\d+)/i) captures, or -1
\* when the message has no match
retryAfterMatch(message) ==
  IF message = "Rate limit reached. Retry after 20 seconds" THEN 20
  ELSE IF message = "Rate limit exceeded, retry-after: 5" THEN 5
  ELSE -1

\* Errors thrown by the mock stand-in, the circuit breaker and the retry loop
MockTimeoutError == [message |-> "Request timeout", status |-> 0]
MockRateLimitError == [message |-> "Rate limit exceeded", status |-> 429]
MockCircuitError == [message |-> "Circuit breaker OPEN", status |-> 0]
CircuitOpenError ==
  [message |-> "Circuit breaker OPEN - service unavailable", status |-> 0]
NoClientError ==
  [message |-> "OPENAI_API_KEY not configured - cannot evaluate content", status |-> 0]

\* Errors the provider call may fail with
ProviderErrors ==
  { [message |-> "Request timeout", status |-> 0],
    [message |-> "Rate limit exceeded", status |-> 429],
    [message |-> "429 Too Many Requests (timeout while queued)", status |-> 429],
    [message |-> "Internal server error", status |-> 500],
    [message |-> "Unauthorized", status |-> 401],
    [message |-> "getaddrinfo ENOTFOUND api.openai.com", status |-> 0],
    [message |-> "Unexpected token < in JSON", status |-> 0],
    [message |-> "Bad request", status |-> 400] }

\* Replies of the provider (or of a mock response) after normalisation:
\* verdict and confidence in hundredths
ProviderReplies ==
  { [verdict |-> "PASS", confidence |-> 90],
    [verdict |-> "FAIL", confidence |-> 90],
    [verdict |-> "UNCERTAIN", confidence |-> 45] }

categorizeError(error) ==
  LET kw == Keywords(error.message) IN
  IF kw \cap {"timeout", "etimedout", "econnreset"} # {} THEN "TIMEOUT"
  ELSE IF error.status = 429
          \/ kw \cap {"rate limit", "too many requests", "quota"} # {}
    THEN "RATE_LIMIT"
  ELSE IF error.status >= 500 /\ error.status < 600 THEN "SERVER_ERROR"
  ELSE IF error.status = 401 \/ error.status = 403
          \/ kw \cap {"unauthorized", "invalid api key"} # {}
    THEN "AUTH_ERROR"
  ELSE IF kw \cap {"enotfound", "econnrefused", "network"} # {} THEN "NETWORK_ERROR"
  ELSE IF kw \cap {"json", "parse"} # {} THEN "PARSE_ERROR"
  ELSE "UNKNOWN"

isRetryableErrorButParse(errorType) ==
  errorType \notin {"PARSE_ERROR"}

isRetryableError(errorType) ==
  errorType \in {"TIMEOUT", "RATE_LIMIT", "SERVER_ERROR", "NETWORK_ERROR"}

\* The probe history. It is kept (tracked) only in the specification of the
\* circuit's admissions: openedAt is the clock when the circuit last moved
\* to OPEN (0 when it is not OPEN), halfOpenAdmitted the number of calls
\* admitted since it last moved to HALF_OPEN (0 when it is not HALF_OPEN),
\* admitted[c] the circuit state in which the call in slot c was admitted.
NoProbe == [tracked |-> FALSE, openedAt |-> 0, halfOpenAdmitted |-> 0, admitted |-> <<>>]

probeCircuit(J, openedAt, halfOpenAdmitted) ==
  IF J.probe.tracked
  THEN [J EXCEPT !.probe.openedAt = openedAt, !.probe.halfOpenAdmitted = halfOpenAdmitted]
  ELSE J

probeCall(J, c, state) ==
  IF J.probe.tracked
  THEN [J EXCEPT !.probe.admitted[c] = state,
                 !.probe.halfOpenAdmitted = IF state = "HALF_OPEN" THEN @ + 1 ELSE @]
  ELSE J

\* The operators below take the state of the judge client (J) or of the
\* engine (E) as a value and return the state after the code has run. Where
\* an operator reads its argument many times, it binds the argument in a
\* set constructor, { body : J \in {J_} }, so that the argument is evaluated
\* once; CHOOSE takes the one element of that set.

\* A call slot: pc is "idle", "pending" (a provider or mock call is
\* outstanding) or "sleeping" (between two attempts); attempt is the loop
\* variable of evaluateWithRetry; invoked counts the provider or mock
\* invocations made for the call; mock is the kind of mock response taken;
\* lastErrorType is the local variable of evaluateWithRetry.
IdleCall ==
  [pc |-> "idle", rule |-> 0, attempt |-> 0, invoked |-> 0, mock |-> "none",
   lastErrorType |-> "UNKNOWN"]

\* The state of one JudgeService instance as a value J, so that the steps of
\* several calls made in one turn of the event loop compose.
JudgeState ==
  [circuitBreaker |-> circuitBreaker, rateLimitState |-> rateLimitState,
   metrics |-> metrics, calls |-> calls, resolved |-> <<>>, failRun |-> failRun,
   halfOpenSince |-> halfOpenSince, probe |-> probe, emitted |-> <<>>]

InitialJudgeState ==
  [circuitBreaker |->
     [state |-> "CLOSED", failureCount |-> 0,
      failureThreshold |-> FailureThreshold, resetTimeoutMs |-> ResetTimeoutMs,
      lastFailureTime |-> 0, halfOpenSuccessThreshold |-> HalfOpenSuccessThreshold,
      halfOpenSuccessCount |-> 0],
   rateLimitState |-> [isLimited |-> FALSE, retryAfterMs |-> 0],
   metrics |-> [requests |-> 0, successes |-> 0, failures |-> 0, retries |-> 0,
                timeouts |-> 0, rateLimits |-> 0, circuitBreakerTrips |-> 0],
   calls |-> <<>>,
   resolved |-> <<>>,
   failRun |-> 0,
   halfOpenSince |-> 0,
   probe |-> NoProbe,
   emitted |-> <<>>]

\* checkCircuitBreaker: the state after the check, and whether it threw.
\* lastFailureTime 0 stands for null (lastFailureTime || 0).
checkCircuitBreakerAdmits(J) ==
  IF J.circuitBreaker.state = "OPEN"
       /\ now - J.circuitBreaker.lastFailureTime >= J.circuitBreaker.resetTimeoutMs
  THEN [J |-> [J EXCEPT !.circuitBreaker.state = "HALF_OPEN",
                        !.circuitBreaker.halfOpenSuccessCount = 0,
                        !.halfOpenSince = J.metrics.successes,
                        !.emitted = Append(@, "judge:circuit-half-open")],
        thrown |-> FALSE]
  ELSE [J |-> J, thrown |-> FALSE]

checkCircuitBreakerKeepsCount(J) ==
  IF J.circuitBreaker.state = "OPEN"
  THEN IF now - J.circuitBreaker.lastFailureTime >= J.circuitBreaker.resetTimeoutMs
       THEN [J |-> [J EXCEPT !.circuitBreaker.state = "HALF_OPEN",
                             !.halfOpenSince = J.metrics.successes,
                             !.emitted = Append(@, "judge:circuit-half-open")],
             thrown |-> FALSE]
       ELSE [J |-> J, thrown |-> TRUE]
  ELSE [J |-> J, thrown |-> FALSE]

checkCircuitBreaker(J_) ==
  CHOOSE out_ \in {
      IF J.circuitBreaker.state = "OPEN"
      THEN IF now - J.circuitBreaker.lastFailureTime >= J.circuitBreaker.resetTimeoutMs
           THEN [J |-> probeCircuit(
                         [J EXCEPT !.circuitBreaker.state = "HALF_OPEN",
                                   !.circuitBreaker.halfOpenSuccessCount = 0,
                                   !.halfOpenSince = J.metrics.successes,
                                   !.emitted = Append(@, "judge:circuit-half-open")], 0, 0),
                 thrown |-> FALSE]
           ELSE [J |-> J, thrown |-> TRUE]
      ELSE [J |-> J, thrown |-> FALSE]
      : J \in {J_}} : TRUE

recordSuccessKeepsCount(J) ==
  LET cb == J.circuitBreaker
      J1 == IF cb.state = "HALF_OPEN"
            THEN IF cb.halfOpenSuccessCount + 1 >= cb.halfOpenSuccessThreshold
                 THEN [J EXCEPT !.circuitBreaker.halfOpenSuccessCount = @ + 1,
                                !.circuitBreaker.state = "CLOSED",
                                !.circuitBreaker.failureCount = 0,
                                !.emitted = Append(@, "judge:circuit-closed")]
                 ELSE [J EXCEPT !.circuitBreaker.halfOpenSuccessCount = @ + 1]
            ELSE J
  IN [J1 EXCEPT !.rateLimitState.isLimited = FALSE]

recordSuccessOneMore(J) ==
  LET cb == J.circuitBreaker
      J1 == IF cb.state = "HALF_OPEN"
            THEN IF cb.halfOpenSuccessCount + 1 > cb.halfOpenSuccessThreshold
                 THEN [J EXCEPT !.circuitBreaker.halfOpenSuccessCount = @ + 1,
                                !.circuitBreaker.state = "CLOSED",
                                !.circuitBreaker.failureCount = 0,
                                !.emitted = Append(@, "judge:circuit-closed")]
                 ELSE [J EXCEPT !.circuitBreaker.halfOpenSuccessCount = @ + 1]
            ELSE IF cb.state = "CLOSED"
            THEN [J EXCEPT !.circuitBreaker.failureCount = 0]
            ELSE J
  IN [J1 EXCEPT !.rateLimitState.isLimited = FALSE]

recordSuccess(J_) ==
  CHOOSE out_ \in {
      LET cb == J.circuitBreaker
          J1 == IF cb.state = "HALF_OPEN"
                THEN IF cb.halfOpenSuccessCount + 1 >= cb.halfOpenSuccessThreshold
                     THEN probeCircuit(
                            [J EXCEPT !.circuitBreaker.halfOpenSuccessCount = @ + 1,
                                      !.circuitBreaker.state = "CLOSED",
                                      !.circuitBreaker.failureCount = 0,
                                      !.emitted = Append(@, "judge:circuit-closed")], 0, 0)
                     ELSE [J EXCEPT !.circuitBreaker.halfOpenSuccessCount = @ + 1]
                ELSE IF cb.state = "CLOSED"
                THEN [J EXCEPT !.circuitBreaker.failureCount = 0]
                ELSE J
      IN [J1 EXCEPT !.rateLimitState.isLimited = FALSE]
      : J \in {J_}} : TRUE

openCircuitUnguarded(J) ==
  [J EXCEPT !.circuitBreaker.state = "OPEN",
            !.metrics.circuitBreakerTrips = @ + 1,
            !.emitted = Append(@, "judge:circuit-open")]

openCircuit(J_) ==
  CHOOSE out_ \in {
      IF J.circuitBreaker.state # "OPEN"
      THEN probeCircuit([J EXCEPT !.circuitBreaker.state = "OPEN",
                                  !.metrics.circuitBreakerTrips = @ + 1,
                                  !.emitted = Append(@, "judge:circuit-open")], now, 0)
      ELSE J
      : J \in {J_}} : TRUE

resetCircuitBreakerKeepsLimit(J) ==
  [J EXCEPT !.circuitBreaker.state = "CLOSED",
            !.circuitBreaker.failureCount = 0,
            !.circuitBreaker.halfOpenSuccessCount = 0,
            !.emitted = Append(@, "judge:circuit-reset")]

\* resetCircuitBreaker()
resetCircuitBreaker(J) ==
  probeCircuit([J EXCEPT !.circuitBreaker.state = "CLOSED",
                         !.circuitBreaker.failureCount = 0,
                         !.circuitBreaker.halfOpenSuccessCount = 0,
                         !.rateLimitState.isLimited = FALSE,
                         !.emitted = Append(@, "judge:circuit-reset")], 0, 0)

\* JudgeService.updateConfig(newConfig) for the circuit breaker settings;
\* a setting that is 0 or missing is left as it is
updateJudgeConfig(J, newConfig) ==
  [J EXCEPT !.circuitBreaker.failureThreshold =
               IF newConfig.circuitBreakerThreshold # 0
               THEN newConfig.circuitBreakerThreshold ELSE @,
            !.circuitBreaker.resetTimeoutMs =
               IF newConfig.circuitBreakerResetMs # 0
               THEN newConfig.circuitBreakerResetMs ELSE @]

\* handleRateLimit: the seconds the retry-after pattern finds in the
\* message, in milliseconds, or 60000 ms when it finds none
handleRateLimit(J, error) ==
  [J EXCEPT !.rateLimitState.isLimited = TRUE,
            !.rateLimitState.retryAfterMs =
               IF retryAfterMatch(error.message) # -1
               THEN retryAfterMatch(error.message) * 1000
               ELSE 60000]

\* retryConfig: initialDelayMs, backoffMultiplier and maxDelayMs of a service
\* constructed without retryDelay, backoffMultiplier and maxRetryDelay
InitialDelayMs == 1000
BackoffMultiplier == 2
MaxDelayMs == 10000

RECURSIVE pow(_, _)
pow(base, exponent) ==
  IF exponent = 0 THEN 1 ELSE base * pow(base, exponent - 1)

Max(a, b) == IF a >= b THEN a ELSE b

Min(a, b) == IF a <= b THEN a ELSE b

\* calculateRetryDelay before the jitter: exponential backoff, raised to
\* rateLimitState.retryAfterMs for a rate limit, capped at maxDelayMs
baseDelay(J, attempt, errorType) ==
  Min(IF errorType = "RATE_LIMIT" /\ J.rateLimitState.retryAfterMs > 0
      THEN Max(InitialDelayMs * pow(BackoffMultiplier, attempt - 1),
               J.rateLimitState.retryAfterMs)
      ELSE InitialDelayMs * pow(BackoffMultiplier, attempt - 1),
      MaxDelayMs)

\* calculateRetryDelay(attempt, errorType) when Math.random() returns
\* random / 4: Math.floor(baseDelay + baseDelay * 0.1 * Math.random()).
\* The base delays are whole multiples of 1000 and the random numbers
\* multiples of 1/4, for which the binary64 products are exact.
calculateRetryDelay(J, attempt, errorType, random) ==
  baseDelay(J, attempt, errorType)
    + (baseDelay(J, attempt, errorType) * random) \div 40

recordFailureClosedOnly(J, errorType, error) ==
  LET J1 == [J EXCEPT !.circuitBreaker.failureCount = @ + 1,
                      !.circuitBreaker.lastFailureTime = now]
      J2 == IF errorType = "TIMEOUT"
            THEN [J1 EXCEPT !.metrics.timeouts = @ + 1]
            ELSE IF errorType = "RATE_LIMIT"
            THEN handleRateLimit([J1 EXCEPT !.metrics.rateLimits = @ + 1], error)
            ELSE J1
  IN IF J2.circuitBreaker.state = "CLOSED"
          /\ J2.circuitBreaker.failureCount >= J2.circuitBreaker.failureThreshold
     THEN openCircuit(J2)
     ELSE J2

recordFailure(J_, errorType, error) ==
  CHOOSE out_ \in {
      LET J1 == [J EXCEPT !.circuitBreaker.failureCount = @ + 1,
                          !.circuitBreaker.lastFailureTime = now]
          J2 == IF errorType = "TIMEOUT"
                THEN [J1 EXCEPT !.metrics.timeouts = @ + 1]
                ELSE IF errorType = "RATE_LIMIT"
                THEN handleRateLimit([J1 EXCEPT !.metrics.rateLimits = @ + 1], error)
                ELSE J1
      IN IF J2.circuitBreaker.state = "HALF_OPEN" THEN openCircuit(J2)
         ELSE IF J2.circuitBreaker.failureCount >= J2.circuitBreaker.failureThreshold
         THEN openCircuit(J2)
         ELSE J2
      : J \in {J_}} : TRUE

\* What evaluate returns, with the call it belongs to: path is "success",
\* "failure" or "rejected"; thrown is the error the try block ended with;
\* raised says that evaluate threw it to its caller instead of returning.
Resolution(J, c, path, thrown, result) ==
  [call |-> c, rule |-> J.calls[c].rule, path |-> path,
   invoked |-> J.calls[c].invoked, thrown |-> thrown, raised |-> FALSE,
   result |-> result]

\* The try branch of evaluate after the await: the call succeeded with reply
evaluateSucceeds(J_, c, reply) ==
  CHOOSE out_ \in {
      LET J1 == probeCall(recordSuccess([J EXCEPT !.metrics.successes = @ + 1]), c, "none")
      IN [J1 EXCEPT
            !.resolved = Append(@, Resolution(J, c, "success", NoError,
                           [verdict |-> reply.verdict, confidence |-> reply.confidence,
                            error |-> "", errorType |-> "none"])),
            !.emitted = Append(@, "judge:evaluation-complete"),
            !.failRun = 0,
            !.calls[c] = IdleCall]
      : J \in {J_}} : TRUE

evaluateRethrows(J, c, error, path) ==
  LET errorType == categorizeError(error)
      J1 == recordFailure([J EXCEPT !.metrics.failures = @ + 1], errorType, error)
  IN [J1 EXCEPT
        !.resolved = Append(@, [Resolution(J, c, path, error,
                       [verdict |-> "NONE", confidence |-> 0,
                        error |-> "", errorType |-> "none"])
                                  EXCEPT !.raised = TRUE]),
        !.failRun = @ + 1,
        !.calls[c] = IdleCall]

evaluateFailsUncounted(J, c, error, path) ==
  LET errorType == categorizeError(error)
      J1 == recordFailure(J, errorType, error)
  IN [J1 EXCEPT
        !.resolved = Append(@, Resolution(J, c, path, error,
                       [verdict |-> "UNCERTAIN", confidence |-> 0,
                        error |-> error.message, errorType |-> errorType])),
        !.emitted = Append(@, "judge:evaluation-error"),
        !.failRun = @ + 1,
        !.calls[c] = IdleCall]

\* The catch branch of evaluate: the call failed with error
evaluateFails(J_, c, error, path) ==
  CHOOSE out_ \in {
      LET errorType == categorizeError(error)
          J1 == probeCall(recordFailure([J EXCEPT !.metrics.failures = @ + 1], errorType, error),
                          c, "none")
      IN [J1 EXCEPT
            !.resolved = Append(@, Resolution(J, c, path, error,
                           [verdict |-> "UNCERTAIN", confidence |-> 0,
                            error |-> error.message, errorType |-> errorType])),
            !.emitted = Append(@, "judge:evaluation-error"),
            !.failRun = @ + 1,
            !.calls[c] = IdleCall]
      : J \in {J_}} : TRUE

\* The synchronous part of evaluate(rule, content) in call slot c: count the
\* request, check the circuit breaker and either take the catch branch at
\* once (rejection) or start the mock response or the first provider call.
\* mockKind is the kind of the rule's mock response: "circuitBreaker" or
\* "other" (a reply, a timeout or a rate limit, drawn when the call settles).
evaluateStart(J_, c, rule, mockKind) ==
  CHOOSE out_ \in {
      LET J0 == [J EXCEPT !.metrics.requests = @ + 1,
                          !.emitted = Append(@, "judge:evaluation-start"),
                          !.calls[c] = [IdleCall EXCEPT !.rule = rule]]
          chk == checkCircuitBreaker(J0)
          J1 == IF chk.thrown THEN chk.J ELSE probeCall(chk.J, c, chk.J.circuitBreaker.state)
      IN IF chk.thrown THEN evaluateFails(J1, c, CircuitOpenError, "rejected")
         ELSE IF judgeMode = "mock"
         THEN IF mockKind = "circuitBreaker"
              THEN [openCircuit([J1 EXCEPT !.circuitBreaker.failureCount =
                                              J1.circuitBreaker.failureThreshold])
                      EXCEPT !.calls[c].pc = "pending", !.calls[c].invoked = 1,
                             !.calls[c].mock = "circuitBreaker"]
              ELSE [J1 EXCEPT !.calls[c].pc = "pending", !.calls[c].invoked = 1,
                              !.calls[c].mock = "other"]
         ELSE IF judgeMode = "nokey"
         THEN [J1 EXCEPT !.calls[c].pc = "pending"]
         ELSE [J1 EXCEPT !.calls[c].pc = "pending", !.calls[c].attempt = 1,
                         !.calls[c].invoked = 1]
      : J \in {J_}} : TRUE

\* What evaluateMock can end with for a mock response of the given kind: the
\* circuit-trip injection throws; any other response returns its verdict or
\* throws the injected timeout or rate limit.
MockOutcomes(mockKind) ==
  IF mockKind = "circuitBreaker"
  THEN {[ok |-> FALSE, reply |-> [verdict |-> "NONE", confidence |-> 0],
         error |-> MockCircuitError]}
  ELSE {[ok |-> TRUE, reply |-> reply, error |-> NoError] : reply \in ProviderReplies}
       \cup {[ok |-> FALSE, reply |-> [verdict |-> "NONE", confidence |-> 0],
               error |-> error] : error \in {MockTimeoutError, MockRateLimitError}}

\* evaluate after the await of evaluateMock ended with outcome
evaluateSettles(J_, c, outcome) ==
  CHOOSE out_ \in {
      IF outcome.ok THEN evaluateSucceeds(J, c, outcome.reply)
      ELSE evaluateFails(J, c, outcome.error, "failure")
      : J \in {J_}} : TRUE

\* evaluateWithRetry after attempt calls[c].attempt failed with error:
\* rethrow (the catch branch of evaluate runs) or sleep before the next one
attemptFailsOneMore(J, c, error) ==
  LET lastErrorType == categorizeError(error)
      attempt == J.calls[c].attempt
  IN IF isRetryableError(lastErrorType) /\ attempt <= MaxRetries
     THEN [J EXCEPT !.metrics.retries = @ + 1, !.calls[c].pc = "sleeping",
                    !.calls[c].lastErrorType = lastErrorType]
     ELSE evaluateFails(J, c, error, "failure")

attemptFails(J, c, error) ==
  LET lastErrorType == categorizeError(error)
      attempt == J.calls[c].attempt
  IN IF isRetryableError(lastErrorType) /\ attempt < MaxRetries
     THEN [J EXCEPT !.metrics.retries = @ + 1, !.calls[c].pc = "sleeping",
                    !.calls[c].lastErrorType = lastErrorType]
     ELSE evaluateFails(J, c, error, "failure")

\* The sleep of the retry loop is over: the next attempt calls the provider
attemptAgain(J, c) ==
  [J EXCEPT !.calls[c].pc = "pending", !.calls[c].attempt = @ + 1,
            !.calls[c].invoked = @ + 1]

(***************************************************************************)
(* Inputs of the aggregation specifications                                *)
(***************************************************************************)
\* The i-th rule of the rule catalogue: its action and its weight (tenths)
\* cycle through warn/0.2, redact/0.3, block/0, allow/1.0.
RuleAt(i) ==
  LET k == (i - 1) % 4 IN
  [id |-> i,
   on_fail |-> IF k = 0 THEN "warn" ELSE IF k = 1 THEN "redact"
               ELSE IF k = 2 THEN "block" ELSE "allow",
   weight |-> IF k = 0 THEN 2 ELSE IF k = 1 THEN 3 ELSE IF k = 2 THEN 0 ELSE 10]

RuleIds == 1..MaxRules

\* Lists of distinct rule ids, at most MaxRules long
RuleIdLists ==
  UNION { { f \in [1..k -> RuleIds] : \A a, b \in 1..k : a # b => f[a] # f[b] } :
          k \in 0..MaxRules }

\* Rule results a caller of aggregate can pass for the rules ids: the rule's
\* action and weight as declared, any verdict
RuleResultLists ==
  UNION { { [i \in 1..Len(ids) |->
               [rule_id |-> ids[i], action |-> RuleAt(ids[i]).on_fail,
                weight |-> RuleAt(ids[i]).weight, verdict |-> vs[i]]] :
            vs \in [1..Len(ids) -> Verdicts] } : ids \in RuleIdLists }

PolicyInputs ==
  { [evaluation_strategy |-> s, default_action |-> d, threshold |-> NoThreshold] :
      s \in {"all", "any"}, d \in {"allow", "block"} }
  \cup
  { [evaluation_strategy |-> "weighted_threshold", default_action |-> "allow", threshold |-> 9],
    [evaluation_strategy |-> "weighted_threshold", default_action |-> "block", threshold |-> NoThreshold],
    [evaluation_strategy |-> "weighted_threshold", default_action |-> "allow", threshold |-> 0] }

(***************************************************************************)
(* PolicyEngine                                                            *)
(***************************************************************************)
NoVerdict == [final_verdict |-> "NONE"]

\* No operation has returned anything
NoOpResult == [success |-> "NONE"]

\* null where a Policy is expected
NoPolicy == [name |-> "NONE"]

\* The options of an evaluate call that names no policy
NoOptions == [policy |-> NoPolicy]

Pending == [verdict |-> "PENDING"]

IdleEvaluation ==
  [pc |-> "idle", options |-> NoOptions, policy_name |-> "",
   policy |-> [evaluation_strategy |-> "all", default_action |-> "allow",
               threshold |-> NoThreshold],
   parallel |-> TRUE, rulesAtStart |-> <<>>, shared |-> FALSE, rules |-> <<>>,
   mockKinds |-> <<>>,
   results |-> <<>>, next |-> 1]

\* The engine with its judge client as a value E, so that the continuations
\* that run in one turn of the event loop compose.
EngineState(J) == [J |-> J, evaluation |-> evaluation, verdict |-> verdict]

\* The RuleResult built from a rule and the JudgeResult of its call
RuleResult(rule, result) ==
  [rule_id |-> rule.id,
   action |-> rule.on_fail,
   weight |-> IF rule.weight = 0 THEN 10 ELSE rule.weight,   \* rule.weight || 1.0
   verdict |-> result.verdict,
   confidence |-> result.confidence]

\* The PolicyVerdict that evaluate builds from the strategy's aggregation
PolicyVerdict(policy_name, aggregation, ruleResults) ==
  [policy_name |-> policy_name,
   final_verdict |-> aggregation.final_verdict,
   passed |-> aggregation.passed,
   rule_results |-> ruleResults,
   summary |-> aggregation.summary]

\* The policies the engine is configured with
EnginePolicies ==
  { [evaluation_strategy |-> "all", default_action |-> "block", threshold |-> NoThreshold],
    [evaluation_strategy |-> "any", default_action |-> "allow", threshold |-> NoThreshold],
    [evaluation_strategy |-> "weighted_threshold", default_action |-> "redact", threshold |-> 5],
    [evaluation_strategy |-> "majority", default_action |-> "warn", threshold |-> NoThreshold],
    [evaluation_strategy |-> "constructor", default_action |-> "warn", threshold |-> NoThreshold] }

\* What JudgeService.evaluate can return for a rule: a reply of the provider
\* or of a mock response, or the result of the catch branch
JudgeResults ==
  ProviderReplies \cup {[verdict |-> "UNCERTAIN", confidence |-> 0]}

\* The rule results evaluateRules can resolve with for the first n rules of
\* the catalogue
EngineRuleResults(n) ==
  { [i \in 1..n |-> RuleResult(RuleAt(i), f[i])] : f \in [1..n -> JudgeResults] }

\* strategy.aggregate(ruleResults, policy) for the rule results and the
\* policies an evaluation can have, tabulated (a table is computed once)
Aggregation ==
  [ruleResults \in UNION {EngineRuleResults(n) : n \in 0..MaxPolicyRules} |->
     [p \in {q \in EnginePolicies : q.evaluation_strategy \in Strategies} |->
        aggregate(ruleResults, p)]]

\* strategy.aggregate(ruleResults, policy), read from the table where it is
\* tabulated
aggregateOf(ruleResults, policy) ==
  IF ruleResults \in DOMAIN Aggregation
  THEN Aggregation[ruleResults][policy]
  ELSE aggregate(ruleResults, policy)

\* The message of the error that createStrategy(strategyName).aggregate
\* ends with, or "" when there is none. The strategies are looked up in an
\* object literal: a name that Object.prototype defines is found there, and
\* what is found has no aggregate method or is no constructor.
createStrategyError(strategyName) ==
  IF strategyName \in Strategies THEN ""
  ELSE IF strategyName \in {"constructor", "toString", "valueOf", "hasOwnProperty"}
  THEN "TypeError"
  ELSE "Unknown evaluation strategy"

\* PolicyEngine.evaluate once evaluateRules has resolved with ruleResults:
\* look the strategy up (createStrategy throws on an unknown name, and the
\* catch branch returns the ERROR verdict), aggregate and return the verdict.
evaluateRaises(E, ruleResults) ==
  IF createStrategyError(E.evaluation.policy.evaluation_strategy) # ""
  THEN [E EXCEPT
          !.evaluation.pc = "raised",
          !.evaluation.results = ruleResults,
          !.evaluation.mockKinds = <<>>,
          !.verdict = NoVerdict]
  ELSE [E EXCEPT
          !.evaluation.pc = "done",
          !.evaluation.results = ruleResults,
          !.evaluation.mockKinds = <<>>,
          !.J.emitted = Append(@, "policy:evaluation-complete"),
          !.verdict = PolicyVerdict(E.evaluation.policy_name,
                                    Aggregation[ruleResults][E.evaluation.policy],
                                    ruleResults)]

evaluateReturnsErrorOnFailure(E, ruleResults) ==
  IF \E i \in 1..Len(ruleResults) :
       ruleResults[i].verdict = "UNCERTAIN" /\ ruleResults[i].confidence = 0
  THEN [E EXCEPT
          !.evaluation.pc = "done",
          !.evaluation.results = ruleResults,
          !.evaluation.mockKinds = <<>>,
          !.J.emitted = Append(@, "policy:evaluation-error"),
          !.verdict = [policy_name |-> E.evaluation.policy_name,
                       final_verdict |-> "ERROR", passed |-> FALSE,
                       rule_results |-> <<>>, error |-> "Rule evaluation failed"]]
  ELSE [E EXCEPT
          !.evaluation.pc = "done",
          !.evaluation.results = ruleResults,
          !.evaluation.mockKinds = <<>>,
          !.J.emitted =
             Append(@, IF createStrategyError(E.evaluation.policy.evaluation_strategy) # ""
                       THEN "policy:evaluation-error" ELSE "policy:evaluation-complete"),
          !.verdict =
             IF createStrategyError(E.evaluation.policy.evaluation_strategy) # ""
             THEN [policy_name |-> E.evaluation.policy_name,
                   final_verdict |-> "ERROR", passed |-> FALSE, rule_results |-> <<>>,
                   error |-> createStrategyError(E.evaluation.policy.evaluation_strategy)]
             ELSE PolicyVerdict(E.evaluation.policy_name,
                                Aggregation[ruleResults][E.evaluation.policy], ruleResults)]

\* evaluate as it would be if the catch branch emitted the notification of
\* the try block
evaluateReturnsComplete(E, ruleResults) ==
  [E EXCEPT
     !.evaluation.pc = "done",
     !.evaluation.results = ruleResults,
     !.evaluation.mockKinds = <<>>,
     !.J.emitted = Append(@, "policy:evaluation-complete"),
     !.verdict =
        IF createStrategyError(E.evaluation.policy.evaluation_strategy) # ""
        THEN [policy_name |-> E.evaluation.policy_name,
              final_verdict |-> "ERROR", passed |-> FALSE, rule_results |-> <<>>,
              error |-> createStrategyError(E.evaluation.policy.evaluation_strategy)]
        ELSE PolicyVerdict(E.evaluation.policy_name,
                           aggregateOf(ruleResults, E.evaluation.policy), ruleResults)]

evaluateReturns(E_, ruleResults) ==
  CHOOSE out_ \in {
      [E EXCEPT
         !.evaluation.pc = "done",
         !.evaluation.results = ruleResults,
         !.evaluation.mockKinds = <<>>,
         !.J.emitted =
            Append(@, IF createStrategyError(E.evaluation.policy.evaluation_strategy) # ""
                      THEN "policy:evaluation-error" ELSE "policy:evaluation-complete"),
         !.verdict =
            IF createStrategyError(E.evaluation.policy.evaluation_strategy) # ""
            THEN [policy_name |-> E.evaluation.policy_name,
                  final_verdict |-> "ERROR", passed |-> FALSE, rule_results |-> <<>>,
                  error |-> createStrategyError(E.evaluation.policy.evaluation_strategy)]
            ELSE PolicyVerdict(E.evaluation.policy_name,
                               aggregateOf(ruleResults, E.evaluation.policy), ruleResults)]
      : E \in {E_}} : TRUE

\* evaluateRulesParallel: rules.map starts the judge call of every rule, in
\* order, before anything else runs; call slot i serves the i-th rule.
RECURSIVE startAll(_, _, _, _)
startAll(J, rules, mockKinds, i) ==
  IF i > Len(rules) THEN J
  ELSE startAll(evaluateStart(J, i, rules[i], mockKinds[i]), rules, mockKinds, i + 1)

parallelCompletionOrder(E) ==
  LET res == E.J.resolved
      old == E.evaluation.results
      pending == {i \in 1..Len(old) : old[i] = Pending}
      rank(i) == Cardinality({j \in pending : j < i}) + 1
      results == [i \in 1..Len(old) |->
                    IF i \in pending /\ rank(i) <= Len(res)
                    THEN RuleResult(RuleAt(E.evaluation.rulesAtStart[res[rank(i)].call]),
                                    res[rank(i)].result)
                    ELSE old[i]]
  IN IF \A i \in 1..Len(results) : results[i] # Pending
     THEN evaluateReturns(E, results)
     ELSE [E EXCEPT !.evaluation.results = results]

\* The continuations of the parallel callbacks whose judge call resolved in
\* this step, and of Promise.all once every callback has returned
parallelContinues(E_) ==
  CHOOSE out_ \in {
      LET res == E.J.resolved
          results == [i \in 1..Len(E.evaluation.results) |->
                        IF \E k \in 1..Len(res) : res[k].call = i
                        THEN LET k == CHOOSE k \in 1..Len(res) : res[k].call = i
                             IN RuleResult(RuleAt(E.evaluation.rulesAtStart[i]), res[k].result)
                        ELSE E.evaluation.results[i]]
      IN IF \A i \in 1..Len(results) : results[i] # Pending
         THEN evaluateReturns(E, results)
         ELSE [E EXCEPT !.evaluation.results = results]
      : E \in {E_}} : TRUE

\* The rules array evaluate handed to evaluateRules, as it is now: the array
\* of the configured policy while the evaluation shares it (addRule,
\* updateRule and deleteRule change that array in place), else the
\* evaluation's own
evaluationRules(E) ==
  IF E.evaluation.shared THEN configPolicy.rules ELSE E.evaluation.rules

\* evaluateRulesSequential from the top of its for loop: the array iterator
\* reads the rules array as it is now; the judge call of the next rule
\* starts in call slot 1, and when the open circuit rejects it the loop goes
\* on at once.
RECURSIVE sequentialLoop(_)
sequentialLoop(E_) ==
  CHOOSE out_ \in {
      LET next == E.evaluation.next IN
      IF next > Len(evaluationRules(E)) THEN evaluateReturns(E, E.evaluation.results)
      ELSE LET rule == evaluationRules(E)[next]
               J1 == evaluateStart([E.J EXCEPT !.resolved = <<>>], 1, rule,
                                   E.evaluation.mockKinds[rule])
           IN IF J1.calls[1].pc = "idle"
              THEN sequentialLoop(
                     [E EXCEPT
                        !.J = [J1 EXCEPT !.resolved = E.J.resolved \o J1.resolved],
                        !.evaluation.results =
                           Append(@, RuleResult(RuleAt(rule), J1.resolved[1].result)),
                        !.evaluation.next = next + 1])
              ELSE [E EXCEPT !.J = [J1 EXCEPT !.resolved = E.J.resolved]]
      : E \in {E_}} : TRUE

\* The continuation of the sequential loop after the judge call in slot 1
\* resolved in this step; rule is the loop variable, bound before the call
sequentialContinues(E_) ==
  CHOOSE out_ \in {
      LET rule == E.J.resolved[1].rule IN
      sequentialLoop(
        [E EXCEPT
           !.evaluation.results = Append(@, RuleResult(RuleAt(rule), E.J.resolved[1].result)),
           !.evaluation.next = @ + 1])
      : E \in {E_}} : TRUE

\* The engine as it would be if no continuation ran when a judge call
\* resolves
engineWaits(J) == EngineState(J)

\* What the engine does in the step in which the judge state became J
engineContinues(J_) ==
  CHOOSE out_ \in {
      IF evaluation.pc = "running" /\ J.resolved # <<>>
      THEN IF evaluation.parallel THEN parallelContinues(EngineState(J))
           ELSE sequentialContinues(EngineState(J))
      ELSE EngineState(J)
      : J \in {J_}} : TRUE

getActivePolicyConfigured == configPolicy

\* getActivePolicy(): this.runtimePolicy || this.config.policy
getActivePolicy ==
  IF runtimePolicy # NoPolicy THEN runtimePolicy ELSE configPolicy

\* The policy evaluate selects: options.policy || this.getActivePolicy()
selectPolicy(options) ==
  IF options.policy # NoPolicy THEN options.policy ELSE getActivePolicy

\* PolicyEngine.evaluate(content, options) with the selected policy, up to
\* its first suspension
evaluateWith(J, options, policy, mockKinds) ==
  LET ev == [pc |-> "running",
             options |-> options,
             policy_name |-> policy.name,
             policy |-> [evaluation_strategy |-> policy.evaluation_strategy,
                         default_action |-> policy.default_action,
                         threshold |-> policy.threshold],
             parallel |-> parallelEvaluation,
             rulesAtStart |-> policy.rules,
             shared |-> (options.policy = NoPolicy /\ runtimePolicy = NoPolicy),
             rules |-> policy.rules,
             mockKinds |-> mockKinds,
             results |-> IF parallelEvaluation
                         THEN [i \in 1..Len(policy.rules) |-> Pending]
                         ELSE <<>>,
             next |-> 1]
      E == [J |-> [J EXCEPT !.emitted = Append(@, "policy:evaluation-start")],
            evaluation |-> ev, verdict |-> NoVerdict]
  IN IF parallelEvaluation
     THEN parallelContinues(
            [E EXCEPT !.J = startAll(E.J, policy.rules,
                                     [i \in 1..Len(policy.rules) |-> mockKinds[policy.rules[i]]], 1)])
     ELSE sequentialLoop(E)

\* evaluate as it would be with the strategy looked up before the rules are
\* evaluated: under an unknown strategy no judge call is made
evaluateBeginsStrategyFirst(J, options, mockKinds) ==
  IF createStrategyError(selectPolicy(options).evaluation_strategy) # ""
  THEN [J |-> [J EXCEPT !.emitted = <<"policy:evaluation-start", "policy:evaluation-error">>],
        evaluation |->
          [pc |-> "done", options |-> options,
           policy_name |-> selectPolicy(options).name,
           policy |-> [evaluation_strategy |-> selectPolicy(options).evaluation_strategy,
                       default_action |-> selectPolicy(options).default_action,
                       threshold |-> selectPolicy(options).threshold],
           parallel |-> parallelEvaluation,
           rulesAtStart |-> selectPolicy(options).rules,
           shared |-> (options.policy = NoPolicy /\ runtimePolicy = NoPolicy),
           rules |-> selectPolicy(options).rules,
           mockKinds |-> <<>>, results |-> <<>>, next |-> 1],
        verdict |->
          [policy_name |-> selectPolicy(options).name,
           final_verdict |-> "ERROR", passed |-> FALSE, rule_results |-> <<>>,
           error |-> createStrategyError(selectPolicy(options).evaluation_strategy)]]
  ELSE evaluateWith(J, options, selectPolicy(options), mockKinds)

evaluateBegins(J, options, mockKinds) ==
  evaluateWith(J, options, selectPolicy(options), mockKinds)

SetState(states) ==
  \E E \in states :
  /\ circuitBreaker' = E.J.circuitBreaker
  /\ rateLimitState' = E.J.rateLimitState
  /\ metrics' = E.J.metrics
  /\ calls' = E.J.calls
  /\ resolved' = E.J.resolved
  /\ failRun' = E.J.failRun
  /\ halfOpenSince' = E.J.halfOpenSince
  /\ probe' = E.J.probe
  /\ emitted' = E.J.emitted
  /\ evaluation' = E.evaluation
  /\ verdict' = E.verdict

(***************************************************************************)
(* Specification of the judge client under concurrent callers              *)
(***************************************************************************)
InitClient ==
  /\ circuitBreaker = InitialJudgeState.circuitBreaker
  /\ rateLimitState = InitialJudgeState.rateLimitState
  /\ metrics = InitialJudgeState.metrics
  /\ resolved = <<>>
  /\ failRun = 0
  /\ halfOpenSince = 0
  /\ emitted = <<>>
  /\ now = ResetTimeoutMs   \* Date.now() is far beyond any reset timeout

\* The client of the specifications that keep no probe history
InitJudge ==
  /\ InitClient
  /\ probe = NoProbe

InitAggIdle ==
  /\ aggResults = <<>>
  /\ aggPolicy = [evaluation_strategy |-> "all", default_action |-> "allow",
                  threshold |-> NoThreshold]
  /\ aggOut = NoResult
  /\ aggFirst = NoResult

\* A caller invokes judgeService.evaluate(rule, content)
JudgeEvaluate(c, rule, mockKind) ==
  /\ calls[c].pc = "idle"
  /\ \A d \in 1..(c - 1) : calls[d].pc # "idle"   \* slots are taken in order
  /\ metrics.requests < MaxRequests
  /\ mockKind = "circuitBreaker" => judgeMode = "mock"
  /\ SetState({EngineState(evaluateStart(JudgeState, c, rule, mockKind))})
  /\ UNCHANGED <<aggVars, judgeMode, now, configVars, policyOps, runVars>>

\* The mock response of a pending call settles
MockSettles(c) ==
  /\ judgeMode = "mock"
  /\ calls[c].pc = "pending"
  /\ \E outcome \in MockOutcomes(calls[c].mock) :
       SetState({engineContinues(evaluateSettles(JudgeState, c, outcome))})
  /\ UNCHANGED <<aggVars, judgeMode, now, configVars, policyOps, runVars>>

\* evaluateWithRetry finds no client and throws
NoClientFails(c) ==
  /\ judgeMode = "nokey"
  /\ calls[c].pc = "pending"
  /\ SetState({engineContinues(evaluateFails(JudgeState, c, NoClientError, "failure"))})
  /\ UNCHANGED <<aggVars, judgeMode, now, configVars, policyOps, runVars>>

\* The provider answers the outstanding attempt of a call with reply
ProviderAnswers(c, reply) ==
  /\ judgeMode = "live"
  /\ calls[c].pc = "pending"
  /\ reply \in ProviderReplies
  /\ SetState({engineContinues(evaluateSucceeds(JudgeState, c, reply))})
  /\ UNCHANGED <<aggVars, judgeMode, now, configVars, policyOps, runVars>>

ProviderReplies_(c) ==
  \E reply \in ProviderReplies : ProviderAnswers(c, reply)

\* The outstanding attempt of a call fails with error
ProviderRaises(c, error) ==
  /\ judgeMode = "live"
  /\ calls[c].pc = "pending"
  /\ error \in ProviderErrors
  /\ SetState({engineContinues(attemptFails(JudgeState, c, error))})
  /\ UNCHANGED <<aggVars, judgeMode, now, configVars, policyOps, runVars>>

ProviderFails(c) ==
  \E error \in ProviderErrors : ProviderRaises(c, error)

\* The retry sleep of a call ends
RetryWakes(c) ==
  /\ calls[c].pc = "sleeping"
  /\ SetState({engineContinues(attemptAgain(JudgeState, c))})
  /\ UNCHANGED <<aggVars, judgeMode, now, configVars, policyOps, runVars>>

\* Time passes. The clock is read by recordFailure, which overwrites
\* lastFailureTime, and by checkCircuitBreaker, which compares it with
\* lastFailureTime only while the circuit is OPEN: a tick taken in another
\* state can be postponed until the circuit is open without changing any
\* comparison, so the clock advances only then.
Tick ==
  /\ circuitBreaker.state = "OPEN"
  /\ now < ResetTimeoutMs + MaxTime
  /\ now' = now + 1
  /\ resolved' = <<>>
  /\ emitted' = <<>>
  /\ UNCHANGED <<aggVars, judgeMode, circuitBreaker, rateLimitState, metrics, calls, failRun,
               halfOpenSince, probe,
               engineVars>>

InitEngineIdle ==
  /\ configPolicy = [name |-> "configured",
                     evaluation_strategy |-> "all", default_action |-> "allow",
                     threshold |-> NoThreshold, rules |-> <<>>]
  /\ runtimePolicy = NoPolicy
  /\ configFile = [policy |-> configPolicy, parallelEvaluation |-> TRUE]
  /\ policyOps = <<>>
  /\ providerBehaviour = <<>>
  /\ firstVerdict = NoVerdict
  /\ opResult = NoOpResult
  /\ storeCalls = <<>>
  /\ parallelEvaluation = TRUE
  /\ evaluation = IdleEvaluation
  /\ verdict = NoVerdict

InitJudgeSpec ==
  /\ InitJudge
  /\ calls = [c \in 1..MaxCalls |-> IdleCall]
  /\ InitAggIdle
  /\ InitEngineIdle
  /\ judgeMode \in {"mock", "live", "nokey"}

NextJudge ==
  \/ \E c \in DOMAIN calls : JudgeEvaluate(c, 1, "other")
  \/ \E c \in DOMAIN calls : JudgeEvaluate(c, 1, "circuitBreaker")
  \/ \E c \in DOMAIN calls : MockSettles(c)
  \/ \E c \in DOMAIN calls : NoClientFails(c)
  \/ \E c \in DOMAIN calls : ProviderReplies_(c)
  \/ \E c \in DOMAIN calls : ProviderFails(c)
  \/ \E c \in DOMAIN calls : RetryWakes(c)
  \/ Tick

SpecJudge == InitJudgeSpec /\ [][NextJudge]_vars

(***************************************************************************)
(* Specification of the policy engine over its judge client                *)
(***************************************************************************)
Init ==
  /\ InitJudge
  /\ InitAggIdle
  /\ judgeMode \in {"mock", "live", "nokey"}
  /\ calls = [c \in 1..MaxPolicyRules |-> IdleCall]
  /\ \E p \in EnginePolicies, n \in 0..MaxPolicyRules :
       configPolicy = [name |-> "configured",
                       evaluation_strategy |-> p.evaluation_strategy,
                       default_action |-> p.default_action,
                       threshold |-> p.threshold,
                       rules |-> [i \in 1..n |-> i]]
  /\ runtimePolicy = NoPolicy
  /\ parallelEvaluation \in BOOLEAN
  /\ configFile = [policy |-> configPolicy, parallelEvaluation |-> parallelEvaluation]
  /\ policyOps = <<>>
  /\ providerBehaviour = <<>>
  /\ firstVerdict = NoVerdict
  /\ opResult = NoOpResult
  /\ storeCalls = <<>>
  /\ evaluation = IdleEvaluation
  /\ verdict = NoVerdict

\* A client calls policyEngine.evaluate(content, options); mockKinds are the
\* kinds of the mock responses registered for the rules
Evaluate(options, mockKinds) ==
  /\ evaluation.pc # "running"
  /\ metrics.requests + Len(selectPolicy(options).rules) <= MaxRequests
  /\ judgeMode # "mock" => \A r \in DOMAIN mockKinds : mockKinds[r] = "other"
  /\ SetState({evaluateBegins(JudgeState, options, mockKinds)})
  /\ UNCHANGED <<aggVars, judgeMode, now, configVars, runVars>>

\* policyEngine.evaluate(content) of an engine whose configuration stays
EngineEvaluate(mockKinds) ==
  /\ Evaluate(NoOptions, mockKinds)
  /\ UNCHANGED policyOps

Next ==
  \/ \E mockKinds \in [1..Len(configPolicy.rules) -> {"other", "circuitBreaker"}] :
       EngineEvaluate(mockKinds)
  \/ \E c \in DOMAIN calls : MockSettles(c)
  \/ \E c \in DOMAIN calls : NoClientFails(c)
  \/ \E c \in DOMAIN calls : ProviderReplies_(c)
  \/ \E c \in DOMAIN calls : ProviderFails(c)
  \/ \E c \in DOMAIN calls : RetryWakes(c)
  \/ Tick

Spec == Init /\ [][Next]_vars

(***************************************************************************)
(* Specification of the engine under fair scheduling: an engine with a     *)
(* full policy, a provider with one reply, one retryable and one           *)
(* non-retryable error                                                     *)
(***************************************************************************)
\* What the provider does in the smaller specifications: it passes the content, or
\* fails with a rate limit (retried) or with a refusal (not retried)
ResetReplies == { [verdict |-> "PASS", confidence |-> 90] }

ResetErrors ==
  { [message |-> "Rate limit exceeded", status |-> 429],
    [message |-> "Unauthorized", status |-> 401] }

FairPolicies ==
  {p \in EnginePolicies : p.evaluation_strategy \in {"all", "majority"}}

InitFair ==
  /\ InitJudge
  /\ InitAggIdle
  /\ judgeMode \in {"mock", "live", "nokey"}
  /\ calls = [c \in 1..MaxPolicyRules |-> IdleCall]
  /\ \E p \in FairPolicies :
       configPolicy = [name |-> "configured",
                       evaluation_strategy |-> p.evaluation_strategy,
                       default_action |-> p.default_action,
                       threshold |-> p.threshold,
                       rules |-> [i \in 1..MaxPolicyRules |-> i]]
  /\ runtimePolicy = NoPolicy
  /\ parallelEvaluation \in BOOLEAN
  /\ configFile = [policy |-> configPolicy, parallelEvaluation |-> parallelEvaluation]
  /\ policyOps = <<>>
  /\ providerBehaviour = <<>>
  /\ firstVerdict = NoVerdict
  /\ opResult = NoOpResult
  /\ storeCalls = <<>>
  /\ evaluation = IdleEvaluation
  /\ verdict = NoVerdict

\* The outstanding attempt of a call returns or fails
ProviderSettles(c) ==
  \/ \E reply \in ResetReplies : ProviderAnswers(c, reply)
  \/ \E error \in ResetErrors : ProviderRaises(c, error)

NextFair ==
  \/ \E mockKinds \in [1..Len(configPolicy.rules) -> {"other", "circuitBreaker"}] :
       EngineEvaluate(mockKinds)
  \/ \E c \in DOMAIN calls : MockSettles(c)
  \/ \E c \in DOMAIN calls : NoClientFails(c)
  \/ \E c \in DOMAIN calls : ProviderSettles(c)
  \/ \E c \in DOMAIN calls : RetryWakes(c)
  \/ Tick

\* The scheduling the evaluations rely on: the timer of a mock response and
\* the timer of a retry sleep fire, the rejection of the keyless client's
\* promise is delivered, and every provider attempt returns or fails.
Fairness ==
  \A c \in 1..MaxPolicyRules :
    /\ WF_vars(MockSettles(c))
    /\ WF_vars(NoClientFails(c))
    /\ WF_vars(ProviderSettles(c))
    /\ WF_vars(RetryWakes(c))

SpecFair == InitFair /\ [][NextFair]_vars /\ Fairness

(***************************************************************************)
(* Specification of the policy engine while its policies are changed       *)
(***************************************************************************)
MaxPolicyOps == 4    \* PolicyEngine operations called in one behaviour

\* { ...a, ...b }: the properties of b over those of a
Spread(a, b) ==
  [k \in DOMAIN a \cup DOMAIN b |-> IF k \in DOMAIN b THEN b[k] ELSE a[k]]

\* The policies handed to setRuntimePolicy
RuntimePolicies ==
  { [name |-> "runtime", evaluation_strategy |-> "any", default_action |-> "allow",
     threshold |-> NoThreshold, rules |-> <<1, 2>>] }

\* The options handed to evaluate
CallOptions ==
  { NoOptions,
    [policy |-> [name |-> "call", evaluation_strategy |-> "weighted_threshold",
                 default_action |-> "redact", threshold |-> 5, rules |-> <<1>>]] }

\* The partial configurations handed to updateConfig (none has a judge part)
NewConfigs ==
  { [policy |-> [name |-> "updated"]],
    [policy |-> [name |-> "updated", evaluation_strategy |-> "any",
                 default_action |-> "allow", rules |-> <<1>>],
     settings |-> [parallelEvaluation |-> FALSE]],
    [settings |-> [parallelEvaluation |-> TRUE]] }

\* What policy-config.json holds when the engine is constructed with a
\* configuration of its own (no environment variable overrides the file)
FilePolicy ==
  [name |-> "file", evaluation_strategy |-> "all", default_action |-> "block",
   threshold |-> NoThreshold, rules |-> <<1>>]

InitPolicy ==
  /\ InitJudge
  /\ InitAggIdle
  /\ judgeMode = "mock"
  /\ calls = [c \in 1..MaxPolicyRules |-> IdleCall]
  /\ configPolicy = [name |-> "configured", evaluation_strategy |-> "all",
                     default_action |-> "block", threshold |-> NoThreshold,
                     rules |-> <<1>>]
  /\ runtimePolicy = NoPolicy
  /\ parallelEvaluation \in BOOLEAN
  /\ configFile = [policy |-> FilePolicy, parallelEvaluation |-> parallelEvaluation]
  /\ policyOps = <<>>
  /\ providerBehaviour = <<>>
  /\ firstVerdict = NoVerdict
  /\ opResult = NoOpResult
  /\ storeCalls = <<>>
  /\ evaluation = IdleEvaluation
  /\ verdict = NoVerdict

\* policyEngine.evaluate(content, options)
PolicyEvaluate(options, mockKinds) ==
  /\ Len(policyOps) < MaxPolicyOps
  /\ Evaluate(options, mockKinds)
  /\ policyOps' = Append(policyOps, "evaluate")

\* policyEngine.setRuntimePolicy(policy)
SetRuntimePolicy(policy) ==
  /\ Len(policyOps) < MaxPolicyOps
  /\ runtimePolicy' = policy
  /\ policyOps' = Append(policyOps, "setRuntimePolicy")
  /\ resolved' = <<>>
  /\ emitted' = <<>>
  /\ UNCHANGED <<aggVars, judgeMode, circuitBreaker, rateLimitState, metrics, calls, failRun,
                 halfOpenSince, probe, now, configPolicy, configFile, parallelEvaluation,
                 evaluation, verdict, runVars>>

\* policyEngine.clearRuntimePolicy()
ClearRuntimePolicy ==
  /\ Len(policyOps) < MaxPolicyOps
  /\ runtimePolicy' = NoPolicy
  /\ policyOps' = Append(policyOps, "clearRuntimePolicy")
  /\ resolved' = <<>>
  /\ emitted' = <<>>
  /\ UNCHANGED <<aggVars, judgeMode, circuitBreaker, rateLimitState, metrics, calls, failRun,
                 halfOpenSince, probe, now, configPolicy, configFile, parallelEvaluation,
                 evaluation, verdict, runVars>>

\* The evaluation in flight once the configuration has a rules array other
\* than the one it had: the evaluation keeps the array it was started with
keepsRules(ev) ==
  IF ev.pc = "running" /\ ev.shared
  THEN [ev EXCEPT !.shared = FALSE, !.rules = configPolicy.rules]
  ELSE ev

\* policyEngine.updateConfig(newConfig): merge the parts given and save
UpdateConfig(newConfig) ==
  /\ Len(policyOps) < MaxPolicyOps
  /\ configPolicy' = IF "policy" \in DOMAIN newConfig
                     THEN Spread(configPolicy, newConfig.policy)
                     ELSE configPolicy
  /\ parallelEvaluation' = IF "settings" \in DOMAIN newConfig
                           THEN newConfig.settings.parallelEvaluation
                           ELSE parallelEvaluation
  /\ configFile' = [policy |-> configPolicy', parallelEvaluation |-> parallelEvaluation']
  /\ policyOps' = Append(policyOps, "updateConfig")
  /\ resolved' = <<>>
  /\ emitted' = <<"policy:config-updated">>
  /\ evaluation' = IF "policy" \in DOMAIN newConfig /\ "rules" \in DOMAIN newConfig.policy
                   THEN keepsRules(evaluation)
                   ELSE evaluation
  /\ UNCHANGED <<aggVars, judgeMode, circuitBreaker, rateLimitState, metrics, calls, failRun,
                 halfOpenSince, probe, now, runtimePolicy, verdict, runVars>>

\* policyEngine.reloadConfig(): this.config = loadConfig(); the judge part of
\* the file is the configuration the judge client already has
ReloadConfig ==
  /\ Len(policyOps) < MaxPolicyOps
  /\ configPolicy' = configFile.policy
  /\ parallelEvaluation' = configFile.parallelEvaluation
  /\ policyOps' = Append(policyOps, "reloadConfig")
  /\ resolved' = <<>>
  /\ emitted' = <<"policy:config-reloaded">>
  /\ evaluation' = keepsRules(evaluation)
  /\ UNCHANGED <<aggVars, judgeMode, circuitBreaker, rateLimitState, metrics, calls, failRun,
                 halfOpenSince, probe, now, runtimePolicy, configFile, verdict, runVars>>

NextPolicy ==
  \/ \E options \in CallOptions :
       \E mockKinds \in [1..Len(selectPolicy(options).rules) -> {"other"}] :
         PolicyEvaluate(options, mockKinds)
  \/ \E policy \in RuntimePolicies : SetRuntimePolicy(policy)
  \/ ClearRuntimePolicy
  \/ \E newConfig \in NewConfigs : UpdateConfig(newConfig)
  \/ ReloadConfig
  \/ \E c \in DOMAIN calls : MockSettles(c)

SpecPolicy == InitPolicy /\ [][NextPolicy]_vars

(***************************************************************************)
(* Specification of two engines with the same policy, judge configuration  *)
(* and provider behaviour, which differ in the evaluation mode and in the  *)
(* order of the policy's rules                                             *)
(***************************************************************************)
\* The least number of rules with which the circuit can open during an
\* evaluation and leave a rule to evaluate
ModeRules == FailureThreshold + 1

\* The orderings of the policy's rules
Orderings ==
  { rules \in [1..ModeRules -> 1..ModeRules] :
      \A i, j \in 1..ModeRules : rules[i] = rules[j] => i = j }

\* What the provider does with the judge call of a rule, at every attempt
Behaviours ==
  { [verdict |-> "PASS", confidence |-> 90],
    [verdict |-> "FAIL", confidence |-> 90],
    [message |-> "Unauthorized", status |-> 401],
    [message |-> "Request timeout", status |-> 0] }

ModePolicies ==
  { [evaluation_strategy |-> "all", default_action |-> "block", threshold |-> NoThreshold],
    [evaluation_strategy |-> "any", default_action |-> "allow", threshold |-> NoThreshold] }

InitModes ==
  /\ InitJudge
  /\ InitAggIdle
  /\ judgeMode = "live"
  /\ calls = [c \in 1..ModeRules |-> IdleCall]
  /\ \E p \in ModePolicies :
       configPolicy = [name |-> "configured",
                       evaluation_strategy |-> p.evaluation_strategy,
                       default_action |-> p.default_action,
                       threshold |-> p.threshold,
                       rules |-> [i \in 1..ModeRules |-> i]]
  /\ runtimePolicy = NoPolicy
  /\ parallelEvaluation \in BOOLEAN
  /\ configFile = [policy |-> configPolicy, parallelEvaluation |-> parallelEvaluation]
  /\ policyOps = <<>>
  /\ evaluation = IdleEvaluation
  /\ verdict = NoVerdict
  /\ providerBehaviour \in [1..ModeRules -> Behaviours]
  /\ firstVerdict = NoVerdict
  /\ opResult = NoOpResult
  /\ storeCalls = <<>>

\* The one policyEngine.evaluate(content) call made on an engine
ModeEvaluate ==
  /\ evaluation.pc = "idle"
  /\ EngineEvaluate([r \in 1..ModeRules |-> "other"])

\* The provider does with the outstanding attempt of a call what it does
\* with the calls of that rule
ProviderBehaves(c) ==
  /\ calls[c].pc = "pending"
  /\ \/ ProviderAnswers(c, providerBehaviour[calls[c].rule])
     \/ ProviderRaises(c, providerBehaviour[calls[c].rule])

\* new PolicyEngine({ config }) once the first engine has returned: a second
\* engine with a judge client of its own, configured as the first but for
\* the order of the rules and the evaluation mode
SecondEngine(rules, parallel) ==
  /\ evaluation.pc = "done"
  /\ firstVerdict = NoVerdict
  /\ firstVerdict' = verdict
  /\ configPolicy' = [configPolicy EXCEPT !.rules = rules]
  /\ parallelEvaluation' = parallel
  /\ circuitBreaker' = InitialJudgeState.circuitBreaker
  /\ rateLimitState' = InitialJudgeState.rateLimitState
  /\ metrics' = InitialJudgeState.metrics
  /\ calls' = [c \in 1..ModeRules |-> IdleCall]
  /\ resolved' = <<>>
  /\ failRun' = 0
  /\ halfOpenSince' = 0
  /\ probe' = probe
  /\ emitted' = <<>>
  /\ evaluation' = IdleEvaluation
  /\ verdict' = NoVerdict
  /\ UNCHANGED <<aggVars, judgeMode, now, runtimePolicy, configFile, policyOps,
                 providerBehaviour, opResult, storeCalls>>

NextModes ==
  \/ ModeEvaluate
  \/ \E c \in DOMAIN calls : ProviderBehaves(c)
  \/ \E c \in DOMAIN calls : RetryWakes(c)
  \/ \E rules \in Orderings, parallel \in BOOLEAN : SecondEngine(rules, parallel)

SpecModes == InitModes /\ [][NextModes]_vars

(***************************************************************************)
(* Specification of the policy engine while rules are added, updated and   *)
(* deleted                                                                 *)
(***************************************************************************)
\* rules.findIndex(r => r.id === ruleId), counted from 1; 0 for -1
findIndex(rules, ruleId) ==
  IF \E i \in 1..Len(rules) : rules[i] = ruleId
  THEN CHOOSE i \in 1..Len(rules) :
         rules[i] = ruleId /\ \A j \in 1..(i - 1) : rules[j] # ruleId
  ELSE 0

\* rules.splice(ruleIndex, 1)
splice(rules, ruleIndex) ==
  [i \in 1..(Len(rules) - 1) |-> IF i < ruleIndex THEN rules[i] ELSE rules[i + 1]]

\* What a rule operation refused leaves and returns
Refused(rules) ==
  [rules |-> rules, result |-> [success |-> FALSE], emitted |-> <<>>]

addRuleUnchecked(rules, rule) ==
  [rules |-> Append(rules, rule),
   result |-> [success |-> TRUE, rule |-> rule],
   emitted |-> <<"policy:rule-added">>]

\* addRule(rule) on the rules array: the array after it, the
\* RuleOperationResult and the notifications
addRule(rules, rule) ==
  IF findIndex(rules, rule) # 0 THEN Refused(rules)
  ELSE [rules |-> Append(rules, rule),
        result |-> [success |-> TRUE, rule |-> rule],
        emitted |-> <<"policy:rule-added">>]

\* updateRule(ruleId, updates), where updates gives the id, the action and
\* the weight of the catalogue's rule updates.id
updateRule(rules, ruleId, updates) ==
  IF findIndex(rules, ruleId) = 0 THEN Refused(rules)
  ELSE IF updates.id # ruleId /\ findIndex(rules, updates.id) # 0 THEN Refused(rules)
  ELSE [rules |-> [rules EXCEPT ![findIndex(rules, ruleId)] = updates.id],
        result |-> [success |-> TRUE, rule |-> updates.id],
        emitted |-> <<"policy:rule-updated">>]

\* deleteRule(ruleId)
deleteRule(rules, ruleId) ==
  IF findIndex(rules, ruleId) = 0 THEN Refused(rules)
  ELSE [rules |-> splice(rules, findIndex(rules, ruleId)),
        result |-> [success |-> TRUE, deletedRule |-> ruleId],
        emitted |-> <<"policy:rule-deleted">>]

\* A rule operation returns: the rules array of the configured policy is
\* changed in place and, when the operation succeeded, saveConfig writes the
\* configuration to the file.  opResult keeps the call with what it returned.
RuleOpReturns(call, out) ==
  /\ configPolicy' = [configPolicy EXCEPT !.rules = out.rules]
  /\ configFile' = IF out.result.success
                   THEN [policy |-> configPolicy', parallelEvaluation |-> parallelEvaluation]
                   ELSE configFile
  /\ opResult' = [call |-> call, success |-> out.result.success]
  /\ emitted' = out.emitted
  /\ resolved' = <<>>
  /\ UNCHANGED <<aggVars, judgeMode, circuitBreaker, rateLimitState, metrics, calls, failRun,
                 halfOpenSince, probe, now, runtimePolicy, policyOps, parallelEvaluation,
                 evaluation, verdict, providerBehaviour, firstVerdict, storeCalls>>

AddRule(rule) ==
  RuleOpReturns([op |-> "addRule", ruleId |-> rule, id |-> rule],
                addRule(configPolicy.rules, rule))

UpdateRule(ruleId, updates) ==
  RuleOpReturns([op |-> "updateRule", ruleId |-> ruleId, id |-> updates.id],
                updateRule(configPolicy.rules, ruleId, updates))

DeleteRule(ruleId) ==
  RuleOpReturns([op |-> "deleteRule", ruleId |-> ruleId, id |-> ruleId],
                deleteRule(configPolicy.rules, ruleId))

\* The judge client has no API key: every call that the circuit admits fails
InitRules ==
  /\ InitJudge
  /\ InitAggIdle
  /\ judgeMode = "nokey"
  /\ calls = [c \in 1..MaxRules |-> IdleCall]
  /\ configPolicy = [name |-> "configured", evaluation_strategy |-> "all",
                     default_action |-> "block", threshold |-> NoThreshold,
                     rules |-> <<1, 2>>]
  /\ runtimePolicy = NoPolicy
  /\ parallelEvaluation \in BOOLEAN
  /\ configFile = [policy |-> configPolicy, parallelEvaluation |-> parallelEvaluation]
  /\ policyOps = <<>>
  /\ evaluation = IdleEvaluation
  /\ verdict = NoVerdict
  /\ providerBehaviour = <<>>
  /\ firstVerdict = NoVerdict
  /\ opResult = NoOpResult
  /\ storeCalls = <<>>

NextRules ==
  \/ EngineEvaluate([r \in 1..MaxRules |-> "other"])
  \/ \E c \in DOMAIN calls : NoClientFails(c)
  \/ \E rule \in 1..MaxRules : AddRule(rule)
  \/ \E ruleId, id \in 1..MaxRules : UpdateRule(ruleId, [id |-> id])
  \/ \E ruleId \in 1..MaxRules : DeleteRule(ruleId)

SpecRules == InitRules /\ [][NextRules]_vars

(***************************************************************************)
(* Specification of the policy engine with a ConfigService: the rule       *)
(* operations and their async variants.  configFile is the configuration   *)
(* document that the ConfigService stores.                                 *)
(***************************************************************************)
\* What a rule operation of the engine leaves in storeCalls: the
\* ConfigService call it makes, with who waits for it
StoreCall(op, ruleId, id, caller) ==
  [op |-> op, ruleId |-> ruleId, id |-> id, caller |-> caller]

\* ConfigService.addRule / updateRule / deleteRule on the stored rules
storeOperation(rules, call) ==
  IF call.op = "addRule" THEN addRule(rules, call.id)
  ELSE IF call.op = "updateRule" THEN updateRule(rules, call.ruleId, [id |-> call.id])
  ELSE deleteRule(rules, call.ruleId)

\* What addRuleAsync pushes without looking at the rules in memory
pushResult(rules, call) == Append(rules, call.id)

\* What addRuleAsync, updateRuleAsync and deleteRuleAsync do to the rules in
\* memory once the ConfigService call has succeeded
applyResult(rules, call) ==
  IF call.op = "addRule" THEN pushResult(rules, call)
  ELSE IF findIndex(rules, call.ruleId) = 0 THEN rules
  ELSE IF call.op = "updateRule"
  THEN [rules EXCEPT ![findIndex(rules, call.ruleId)] = call.id]
  ELSE splice(rules, findIndex(rules, call.ruleId))

\* The rule list stays within MaxRules: every call in flight may add one rule
RoomForCall == Len(configPolicy.rules) + Len(storeCalls) < MaxRules

\* addRule, updateRule, deleteRule of the engine: the operation on the rules
\* in memory, and when it succeeded a ConfigService call that nobody awaits
SyncRuleOp(call, out) ==
  /\ RoomForCall
  /\ configPolicy' = [configPolicy EXCEPT !.rules = out.rules]
  /\ storeCalls' = IF out.result.success THEN Append(storeCalls, call) ELSE storeCalls
  /\ opResult' = [call |-> call, success |-> out.result.success]
  /\ emitted' = out.emitted
  /\ resolved' = <<>>
  /\ UNCHANGED <<aggVars, judgeMode, circuitBreaker, rateLimitState, metrics, calls, failRun,
                 halfOpenSince, probe, now, runtimePolicy, configFile, policyOps,
                 parallelEvaluation, evaluation, verdict, providerBehaviour, firstVerdict>>

StoreAddRule(rule) ==
  SyncRuleOp(StoreCall("addRule", rule, rule, "sync"), addRule(configPolicy.rules, rule))

StoreUpdateRule(ruleId, updates) ==
  SyncRuleOp(StoreCall("updateRule", ruleId, updates.id, "sync"),
             updateRule(configPolicy.rules, ruleId, updates))

StoreDeleteRule(ruleId) ==
  SyncRuleOp(StoreCall("deleteRule", ruleId, ruleId, "sync"),
             deleteRule(configPolicy.rules, ruleId))

\* addRuleAsync, updateRuleAsync, deleteRuleAsync up to their await
AsyncRuleOp(call) ==
  /\ storeCalls' = Append(storeCalls, call)
  /\ emitted' = <<>>
  /\ resolved' = <<>>
  /\ UNCHANGED <<aggVars, judgeMode, circuitBreaker, rateLimitState, metrics, calls, failRun,
                 halfOpenSince, probe, now, configVars, policyOps, evaluation, verdict,
                 providerBehaviour, firstVerdict, opResult>>

AddRuleAsync(rule) ==
  /\ RoomForCall
  /\ AsyncRuleOp(StoreCall("addRule", rule, rule, "async"))

UpdateRuleAsync(ruleId, updates) ==
  /\ RoomForCall
  /\ AsyncRuleOp(StoreCall("updateRule", ruleId, updates.id, "async"))

DeleteRuleAsync(ruleId) ==
  /\ RoomForCall
  /\ AsyncRuleOp(StoreCall("deleteRule", ruleId, ruleId, "async"))

\* The ConfigService call made first returns out; an async variant that
\* awaited it goes on with the rules in memory
StoreReturns(call, out) ==
  /\ storeCalls' = Tail(storeCalls)
  /\ configFile' = [configFile EXCEPT !.policy.rules = out.rules]
  /\ configPolicy' =
       IF call.caller = "async" /\ out.result.success
       THEN [configPolicy EXCEPT !.rules = applyResult(configPolicy.rules, call)]
       ELSE configPolicy
  /\ opResult' = IF call.caller = "async"
                 THEN [call |-> call, success |-> out.result.success]
                 ELSE opResult
  /\ emitted' = IF call.caller = "async" THEN out.emitted ELSE <<>>
  /\ resolved' = <<>>
  /\ UNCHANGED <<aggVars, judgeMode, circuitBreaker, rateLimitState, metrics, calls, failRun,
                 halfOpenSince, probe, now, runtimePolicy, policyOps, parallelEvaluation,
                 evaluation, verdict, providerBehaviour, firstVerdict>>

StoreAnswers ==
  /\ storeCalls # <<>>
  /\ StoreReturns(Head(storeCalls), storeOperation(configFile.policy.rules, Head(storeCalls)))

\* The database is not connected: the ConfigService call made first throws.
\* The engine logs it for a sync operation; an async variant rejects.
StoreThrows ==
  /\ storeCalls # <<>>
  /\ storeCalls' = Tail(storeCalls)
  /\ emitted' = <<>>
  /\ resolved' = <<>>
  /\ UNCHANGED <<aggVars, judgeMode, circuitBreaker, rateLimitState, metrics, calls, failRun,
                 halfOpenSince, probe, now, configVars, policyOps, evaluation, verdict,
                 providerBehaviour, firstVerdict, opResult>>

InitStore ==
  /\ InitJudge
  /\ InitAggIdle
  /\ judgeMode = "mock"
  /\ calls = [c \in 1..MaxCalls |-> IdleCall]
  /\ configPolicy = [name |-> "configured", evaluation_strategy |-> "all",
                     default_action |-> "block", threshold |-> NoThreshold,
                     rules |-> <<1>>]
  /\ runtimePolicy = NoPolicy
  /\ parallelEvaluation = TRUE
  /\ configFile = [policy |-> configPolicy, parallelEvaluation |-> parallelEvaluation]
  /\ policyOps = <<>>
  /\ evaluation = IdleEvaluation
  /\ verdict = NoVerdict
  /\ providerBehaviour = <<>>
  /\ firstVerdict = NoVerdict
  /\ opResult = NoOpResult
  /\ storeCalls = <<>>

NextStore ==
  \/ \E rule \in 1..MaxPolicyRules : StoreAddRule(rule)
  \/ \E ruleId, id \in 1..MaxPolicyRules : StoreUpdateRule(ruleId, [id |-> id])
  \/ \E ruleId \in 1..MaxPolicyRules : StoreDeleteRule(ruleId)
  \/ \E rule \in 1..MaxPolicyRules : AddRuleAsync(rule)
  \/ \E ruleId, id \in 1..MaxPolicyRules : UpdateRuleAsync(ruleId, [id |-> id])
  \/ \E ruleId \in 1..MaxPolicyRules : DeleteRuleAsync(ruleId)
  \/ StoreAnswers
  \/ StoreThrows

SpecStore == InitStore /\ [][NextStore]_vars

(***************************************************************************)
(* Specification of validatePolicy as a pure function                      *)
(***************************************************************************)
\* An optional number of a PolicyInput: undefined, or a value in tenths
Undefined == [defined |-> FALSE, value |-> 0]

Num(v) == [defined |-> TRUE, value |-> v]

\* One message of the errors or warnings list; rule is the number of the rule
\* it names, 0 for a message about the policy
Message(text, rule) == [text |-> text, rule |-> rule]

\* The body of policy.rules.forEach for the rule at index i (from 1)
ruleErrors(rule, i) ==
  (IF rule.id = "" THEN <<Message("id is required", i)>> ELSE <<>>)
  \o (IF rule.judge_prompt = "" THEN <<Message("judge_prompt is required", i)>> ELSE <<>>)

ruleWarnings(rule, i) ==
  IF rule.weight.defined /\ (rule.weight.value < 0 \/ rule.weight.value > 10)
  THEN <<Message("weight should be between 0 and 1", i)>>
  ELSE <<>>

RECURSIVE forEachErrors(_, _)
forEachErrors(rules, i) ==
  IF i > Len(rules) THEN <<>>
  ELSE ruleErrors(rules[i], i) \o forEachErrors(rules, i + 1)

RECURSIVE forEachWarnings(_, _)
forEachWarnings(rules, i) ==
  IF i > Len(rules) THEN <<>>
  ELSE ruleWarnings(rules[i], i) \o forEachWarnings(rules, i + 1)

\* getAvailableStrategies()
getAvailableStrategies == <<"all", "any", "weighted_threshold">>

includes(list, x) == \E i \in 1..Len(list) : list[i] = x

\* if (policy.evaluation_strategy && !getAvailableStrategies().includes(...))
strategyErrors(policy) ==
  IF policy.evaluation_strategy # ""
     /\ ~includes(getAvailableStrategies, policy.evaluation_strategy)
  THEN <<Message("Invalid evaluation_strategy", 0)>>
  ELSE <<>>

thresholdErrors(policy) ==
  IF policy.evaluation_strategy = "weighted_threshold"
     /\ policy.threshold.defined
     /\ (policy.threshold.value < 0 \/ policy.threshold.value > 10)
  THEN <<Message("threshold must be between 0 and 1", 0)>>
  ELSE <<>>

thresholdWarnings(policy) ==
  IF policy.evaluation_strategy = "weighted_threshold" /\ ~policy.threshold.defined
  THEN <<Message("weighted_threshold strategy should have a threshold defined", 0)>>
  ELSE <<>>

validationErrors(policy) ==
  (IF policy.name = "" THEN <<Message("Policy name is required", 0)>> ELSE <<>>)
  \o (IF ~policy.rulesIsArray THEN <<Message("Policy rules must be an array", 0)>>
      ELSE forEachErrors(policy.rules, 1))
  \o strategyErrors(policy)
  \o thresholdErrors(policy)

validationWarnings(policy) ==
  (IF policy.rulesIsArray THEN forEachWarnings(policy.rules, 1) ELSE <<>>)
  \o thresholdWarnings(policy)

\* validatePolicy(policy)
validatePolicy(policy) ==
  [valid |-> Len(validationErrors(policy)) = 0,
   errors |-> validationErrors(policy),
   warnings |-> validationWarnings(policy)]

\* The rules of the policies validated: with and without id, judge_prompt
\* and weight, the weight inside and outside [0,1]
RuleInputs ==
  { [id |-> "r1", judge_prompt |-> "Is it safe?", weight |-> Undefined],
    [id |-> "", judge_prompt |-> "Is it safe?", weight |-> Num(5)],
    [id |-> "r2", judge_prompt |-> "", weight |-> Num(15)] }

RuleInputLists ==
  UNION { [1..n -> RuleInputs] : n \in 0..MaxPolicyRules }

\* The policies validated; "" is a name or a strategy that is missing
PolicyInputsToValidate ==
  [name : {"", "policy"},
   rulesIsArray : {TRUE},
   rules : RuleInputLists,
   evaluation_strategy : {"", "all", "any", "weighted_threshold", "majority"},
   threshold : {Undefined, Num(0), Num(7), Num(10), Num(15), Num(0 - 5)}]
  \cup
  [name : {"", "policy"},
   rulesIsArray : {FALSE},
   rules : {<<>>},
   evaluation_strategy : {"", "all", "weighted_threshold"},
   threshold : {Undefined, Num(7)}]

InitValidate ==
  /\ InitJudge
  /\ calls = [c \in 1..MaxCalls |-> IdleCall]
  /\ InitAggIdle
  /\ InitEngineIdle
  /\ judgeMode = "mock"

\* engine.validatePolicy(policy): nothing of the engine changes
ValidatePolicy(policy) ==
  /\ opResult' = [policy |-> policy, result |-> validatePolicy(policy)]
  /\ UNCHANGED <<aggVars, judgeVars, configVars, policyOps, evaluation, verdict,
                 providerBehaviour, firstVerdict, storeCalls>>

NextValidate == \E policy \in PolicyInputsToValidate : ValidatePolicy(policy)

SpecValidate == InitValidate /\ [][NextValidate]_vars

(***************************************************************************)
(* Specification of normalizeConfidence as a pure function                 *)
(***************************************************************************)
\* Numbers: finite ones in hundredths, NaN and the infinities
Finite(v) == [class |-> "finite", value |-> v]

NaN == [class |-> "NaN", value |-> 0]

PosInfinity == [class |-> "Infinity", value |-> 0]

NegInfinity == [class |-> "-Infinity", value |-> 0]

\* The raw confidence of a parsed reply: undefined, null, a number or a string
RawMissing(type) == [type |-> type, num |-> NaN, text |-> ""]

RawNumber(num) == [type |-> "number", num |-> num, text |-> ""]

RawString(text) == [type |-> "string", num |-> NaN, text |-> text]

\* parseFloat of the strings considered: the longest numeric prefix after
\* leading white space, NaN when there is none
parseFloatText ==
  [text \in {"0.9", "85", "85%", " 0.5", "-0.3", "1e2", "Infinity", "high", ""} |->
     CASE text = "0.9" -> Finite(90)
       [] text = "85" -> Finite(8500)
       [] text = "85%" -> Finite(8500)
       [] text = " 0.5" -> Finite(50)
       [] text = "-0.3" -> Finite(0 - 30)
       [] text = "1e2" -> Finite(10000)
       [] text = "Infinity" -> PosInfinity
       [] OTHER -> NaN]

\* parseFloat(String(confidence)); a number prints and parses to itself
parseFloat(confidence) ==
  IF confidence.type = "number" THEN confidence.num ELSE parseFloatText[confidence.text]

isNaN(num) == num.class = "NaN"

\* num > 1
aboveOne(num) ==
  num.class = "Infinity" \/ (num.class = "finite" /\ num.value > 100)

\* Math.min(1, num / 100) for num > 1, in ten-thousandths
minOneOfHundredth(num) ==
  IF num.class = "Infinity" THEN 10000 ELSE Min(10000, num.value)

\* Math.max(0, Math.min(1, num)) for num <= 1, in ten-thousandths
clamp(num) ==
  IF num.class = "-Infinity" THEN 0 ELSE Max(0, Min(100, num.value)) * 100

normalizeConfidenceUnclamped(confidence) ==
  IF confidence.type \in {"undefined", "null"} THEN 5000
  ELSE IF isNaN(parseFloat(confidence)) THEN 5000
  ELSE IF aboveOne(parseFloat(confidence)) THEN minOneOfHundredth(parseFloat(confidence))
  ELSE IF parseFloat(confidence).class = "-Infinity" THEN 0 - 10000
  ELSE Min(100, parseFloat(confidence).value) * 100

\* normalizeConfidence(confidence), in ten-thousandths
normalizeConfidence(confidence) ==
  IF confidence.type \in {"undefined", "null"} THEN 5000
  ELSE IF isNaN(parseFloat(confidence)) THEN 5000
  ELSE IF aboveOne(parseFloat(confidence)) THEN minOneOfHundredth(parseFloat(confidence))
  ELSE clamp(parseFloat(confidence))

\* The raw confidences normalized: numbers from -0.5 to 2 in steps of 0.02,
\* percentages up to 200, the special numbers, strings, undefined and null
RawConfidences ==
  { RawNumber(Finite(2 * n)) : n \in (0 - 25)..100 }
  \cup { RawNumber(Finite(v)) : v \in {101, 8500, 10000, 20000} }
  \cup { RawNumber(NaN), RawNumber(PosInfinity), RawNumber(NegInfinity) }
  \cup { RawString(text) : text \in DOMAIN parseFloatText }
  \cup { RawMissing("undefined"), RawMissing("null") }

InitConfidence ==
  /\ InitJudge
  /\ calls = [c \in 1..MaxCalls |-> IdleCall]
  /\ InitAggIdle
  /\ InitEngineIdle
  /\ judgeMode = "live"

\* parseResponse normalizes the confidence of a reply: nothing of the client
\* changes
NormalizeConfidence(confidence) ==
  /\ opResult' = [raw |-> confidence, confidence |-> normalizeConfidence(confidence)]
  /\ UNCHANGED <<aggVars, judgeVars, configVars, policyOps, evaluation, verdict,
                 providerBehaviour, firstVerdict, storeCalls>>

NextConfidence == \E confidence \in RawConfidences : NormalizeConfidence(confidence)

SpecConfidence == InitConfidence /\ [][NextConfidence]_vars

(***************************************************************************)
(* Specification of the judge client with manual resets and configuration  *)
(* updates                                                                 *)
(***************************************************************************)
\* The circuit breaker settings an updateConfig call may carry; 0 is a
\* setting that the call does not carry
JudgeConfigs ==
  [circuitBreakerThreshold : 0..FailureThreshold,
   circuitBreakerResetMs : {0, ResetTimeoutMs}]

InitReset ==
  /\ InitJudge
  /\ calls = [c \in 1..MaxCalls |-> IdleCall]
  /\ InitAggIdle
  /\ InitEngineIdle
  /\ judgeMode = "live"

\* judgeService.resetCircuitBreaker()
ResetCircuitBreaker ==
  /\ SetState({EngineState(resetCircuitBreaker(JudgeState))})
  /\ UNCHANGED <<aggVars, judgeMode, now, configVars, policyOps, runVars>>

\* judgeService.updateConfig(newConfig)
JudgeUpdateConfig(newConfig) ==
  /\ SetState({EngineState(updateJudgeConfig(JudgeState, newConfig))})
  /\ UNCHANGED <<aggVars, judgeMode, now, configVars, policyOps, runVars>>

NextReset ==
  \/ \E c \in DOMAIN calls : JudgeEvaluate(c, 1, "other")
  \/ \E c \in DOMAIN calls, reply \in ResetReplies : ProviderAnswers(c, reply)
  \/ \E c \in DOMAIN calls, error \in ResetErrors : ProviderRaises(c, error)
  \/ \E c \in DOMAIN calls : RetryWakes(c)
  \/ Tick
  \/ ResetCircuitBreaker
  \/ \E newConfig \in JudgeConfigs : JudgeUpdateConfig(newConfig)

SpecReset == InitReset /\ [][NextReset]_vars

(***************************************************************************)
(* Specification of the circuit's admissions: the mock client, whose       *)
(* circuit-trip injection opens the circuit with one call, with the probe  *)
(* history kept                                                            *)
(***************************************************************************)
InitProbe ==
  /\ InitClient
  /\ probe = [tracked |-> TRUE, openedAt |-> 0, halfOpenAdmitted |-> 0,
              admitted |-> [c \in 1..MaxCalls |-> "none"]]
  /\ calls = [c \in 1..MaxCalls |-> IdleCall]
  /\ InitAggIdle
  /\ InitEngineIdle
  /\ judgeMode = "mock"

NextProbe ==
  \/ \E c \in DOMAIN calls : JudgeEvaluate(c, 1, "other")
  \/ \E c \in DOMAIN calls : JudgeEvaluate(c, 1, "circuitBreaker")
  \/ \E c \in DOMAIN calls : MockSettles(c)
  \/ Tick

SpecProbe == InitProbe /\ [][NextProbe]_vars

(***************************************************************************)
(* Specification of the retry delays of the judge client                   *)
(***************************************************************************)
\* Errors the provider call may fail with, with and without a retry-after
DelayErrors ==
  { [message |-> "Request timeout", status |-> 0],
    [message |-> "Rate limit exceeded", status |-> 429],
    [message |-> "Rate limit reached. Retry after 20 seconds", status |-> 429],
    [message |-> "Rate limit exceeded, retry-after: 5", status |-> 429],
    [message |-> "Unauthorized", status |-> 401] }

\* Math.random() in quarters
Randoms == 0..3

InitDelay ==
  /\ InitJudge
  /\ calls = [c \in 1..MaxCalls |-> IdleCall]
  /\ InitAggIdle
  /\ InitEngineIdle
  /\ judgeMode = "live"

\* The outstanding attempt of a call fails with error; when the retry loop
\* goes on, it sleeps for calculateRetryDelay(attempt, lastErrorType)
ProviderRaisesDelayed(c, error, random) ==
  /\ judgeMode = "live"
  /\ calls[c].pc = "pending"
  /\ SetState({engineContinues(attemptFails(JudgeState, c, error))})
  /\ opResult' = IF calls'[c].pc = "sleeping"
                 THEN [call |-> c, error |-> error, attempt |-> calls[c].attempt,
                       delay |-> calculateRetryDelay(JudgeState, calls[c].attempt,
                                                     categorizeError(error), random)]
                 ELSE NoOpResult
  /\ UNCHANGED <<aggVars, judgeMode, now, configVars, policyOps, providerBehaviour,
                 firstVerdict, storeCalls>>

NextDelay ==
  \/ \E c \in DOMAIN calls : JudgeEvaluate(c, 1, "other")
  \/ \E c \in DOMAIN calls : ProviderReplies_(c)
  \/ \E c \in DOMAIN calls, error \in DelayErrors, random \in Randoms :
       ProviderRaisesDelayed(c, error, random)
  \/ \E c \in DOMAIN calls : RetryWakes(c)
  \/ Tick

SpecDelay == InitDelay /\ [][NextDelay]_vars

(***************************************************************************)
(* Specifications of the aggregation strategies as pure functions          *)
(***************************************************************************)
InitAgg ==
  /\ InitJudge
  /\ calls = [c \in 1..MaxCalls |-> IdleCall]
  /\ InitEngineIdle
  /\ judgeMode = "mock"
  /\ aggResults \in RuleResultLists
  /\ aggPolicy \in PolicyInputs
  /\ aggOut = NoResult
  /\ aggFirst = NoResult

\* strategy.aggregate(ruleResults, policy) on the inputs
Aggregate ==
  /\ aggOut = NoResult
  /\ aggOut' = aggregate(aggResults, aggPolicy)
  /\ aggFirst' = aggOut'
  /\ UNCHANGED <<aggResults, aggPolicy, judgeVars, engineVars>>

\* strategy.aggregate on the same results with two neighbours exchanged
AggregateReordered ==
  /\ aggOut # NoResult
  /\ \E i \in 1..(Len(aggResults) - 1) :
       aggResults' = [aggResults EXCEPT ![i] = aggResults[i + 1],
                                        ![i + 1] = aggResults[i]]
  /\ aggOut' = aggregate(aggResults', aggPolicy)
  /\ UNCHANGED <<aggPolicy, aggFirst, judgeVars, engineVars>>

NextAgg == Aggregate

SpecAgg == InitAgg /\ [][NextAgg]_vars

NextPerm == Aggregate \/ AggregateReordered

SpecPerm == InitAgg /\ [][NextPerm]_vars

(***************************************************************************)
(* Properties of the aggregation strategies                                *)
(***************************************************************************)
Aggregated(s) == aggOut # NoResult /\ aggPolicy.evaluation_strategy = s

HasVerdict(ruleResults, v) == \E i \in 1..Len(ruleResults) : ruleResults[i].verdict = v

AllVerdict(ruleResults, v) == \A i \in 1..Len(ruleResults) : ruleResults[i].verdict = v

\* The on_fail action of highest priority among the FAILED results
HighestFailedAction(ruleResults) ==
  CHOOSE a \in Actions :
    /\ \E i \in 1..Len(ruleResults) :
         ruleResults[i].verdict = "FAIL" /\ ruleResults[i].action = a
    /\ \A i \in 1..Len(ruleResults) :
         ruleResults[i].verdict = "FAIL"
           => ACTION_PRIORITY[ruleResults[i].action] <= ACTION_PRIORITY[a]

\* C3: under ALL, whenever some result is FAIL the final verdict is the
\* uppercase on_fail action of the failed rule of highest priority, whatever
\* the policy's default_action, and passed is false.
C3_AllHighestFailedAction ==
  (Aggregated("all") /\ HasVerdict(aggResults, "FAIL"))
    => /\ aggOut.final_verdict = toUpperCase[HighestFailedAction(aggResults)]
       /\ aggOut.passed = FALSE

\* C5: under ANY, a PASS gives ALLOW with passed; else an UNCERTAIN gives WARN
\* without passed; else (all FAIL) the highest-priority failed action without
\* passed.
C5_AnyVerdict ==
  Aggregated("any") =>
    /\ HasVerdict(aggResults, "PASS")
         => aggOut.final_verdict = "ALLOW" /\ aggOut.passed = TRUE
    /\ (~HasVerdict(aggResults, "PASS") /\ HasVerdict(aggResults, "UNCERTAIN"))
         => aggOut.final_verdict = "WARN" /\ aggOut.passed = FALSE
    /\ (Len(aggResults) > 0 /\ AllVerdict(aggResults, "FAIL"))
         => /\ aggOut.final_verdict = toUpperCase[HighestFailedAction(aggResults)]
            /\ aggOut.passed = FALSE

RECURSIVE SumWeights(_, _, _)
SumWeights(ruleResults, i, factor) ==
  IF i > Len(ruleResults) THEN 0
  ELSE factor[ruleResults[i].verdict] * ruleResults[i].weight
       + SumWeights(ruleResults, i + 1, factor)

\* Twice the sum of the PASS weights plus the sum of the UNCERTAIN weights,
\* and twice the sum of all weights (tenths, weights as declared)
ScoreNumerator2(ruleResults) ==
  SumWeights(ruleResults, 1, [v \in Verdicts |-> IF v = "PASS" THEN 2 ELSE IF v = "UNCERTAIN" THEN 1 ELSE 0])

ScoreDenominator2(ruleResults) ==
  SumWeights(ruleResults, 1, [v \in Verdicts |-> 2])

\* score >= threshold / 10, score = numerator / denominator or 0
ScoreReaches(ruleResults, threshold) ==
  IF ScoreDenominator2(ruleResults) = 0 THEN threshold <= 0
  ELSE 10 * ScoreNumerator2(ruleResults) >= threshold * ScoreDenominator2(ruleResults)

\* C6: under WEIGHTED_THRESHOLD, with the weights as declared (0 included),
\* the result is ALLOW with passed exactly when (PASS weight + half the
\* UNCERTAIN weight) / total weight reaches the threshold used; otherwise
\* passed is false and the verdict is the highest-priority failed action, or
\* BLOCK when nothing failed.
C6_WeightedScore ==
  Aggregated("weighted_threshold") =>
    IF ScoreReaches(aggResults, aggOut.summary.threshold)
    THEN aggOut.final_verdict = "ALLOW" /\ aggOut.passed = TRUE
    ELSE /\ aggOut.passed = FALSE
         /\ aggOut.final_verdict =
              IF HasVerdict(aggResults, "FAIL")
              THEN toUpperCase[HighestFailedAction(aggResults)]
              ELSE "BLOCK"

\* C26: the threshold WEIGHTED_THRESHOLD uses is policy.threshold whenever
\* the policy defines one, 0 included, and 0.7 only when the policy has
\* none; the summary reports that threshold, and passed is decided with it.
C26_ThresholdUsed ==
  Aggregated("weighted_threshold") =>
    /\ aggOut.summary.threshold =
         (IF aggPolicy.threshold = NoThreshold THEN 7 ELSE aggPolicy.threshold)
    /\ aggOut.passed =
         ScoreReaches(aggResults,
                      IF aggPolicy.threshold = NoThreshold THEN 7 ELSE aggPolicy.threshold)

\* C39: for every strategy and every list of rule results, a result with
\* final_verdict ALLOW has passed = true, and a result with passed = true
\* has final_verdict ALLOW or WARN.
C39_VerdictAgreesWithPassed ==
  aggOut # NoResult =>
    /\ aggOut.final_verdict = "ALLOW" => aggOut.passed = TRUE
    /\ aggOut.passed = TRUE => aggOut.final_verdict \in {"ALLOW", "WARN"}

\* C7 as stated: for a result list of any size, the empty one included, in
\* which every verdict is PASS, ALL and ANY return ALLOW with passed.
C7_AllPassAnySize ==
  ((Aggregated("all") \/ Aggregated("any")) /\ AllVerdict(aggResults, "PASS"))
    => aggOut.final_verdict = "ALLOW" /\ aggOut.passed = TRUE

\* C7 as amended: for a non-empty result list in which every verdict is
\* PASS, ALL and ANY return ALLOW with passed.
C7_AllPassNonEmpty ==
  ((Aggregated("all") \/ Aggregated("any"))
     /\ Len(aggResults) > 0 /\ AllVerdict(aggResults, "PASS"))
    => aggOut.final_verdict = "ALLOW" /\ aggOut.passed = TRUE

C7_Witness ==
  /\ Aggregated("any")
  /\ Len(aggResults) = MaxRules
  /\ AllVerdict(aggResults, "PASS")
  /\ aggOut.final_verdict = "ALLOW"

\* C8: aggregate returns the same final verdict, passed flag and counts for
\* every ordering of the same rule results.
C8_OrderIndependent ==
  (aggOut # NoResult /\ aggFirst # NoResult)
    => /\ aggOut.final_verdict = aggFirst.final_verdict
       /\ aggOut.passed = aggFirst.passed
       /\ aggOut.summary.passed = aggFirst.summary.passed
       /\ aggOut.summary.failed = aggFirst.summary.failed
       /\ aggOut.summary.uncertain = aggFirst.summary.uncertain

(***************************************************************************)
(* Properties of the judge client                                          *)
(***************************************************************************)
\* C1: JudgeService.evaluate never raises to its caller: every call resolves
\* to a JudgeResult with a verdict, and on every failure path (a failed
\* attempt that is not retried, retries exhausted, rejection by the open
\* circuit, a mock-injected failure, no client) the result has verdict
\* UNCERTAIN and confidence 0 and carries the message of the error and the
\* type categorizeError gives it.
C1_EvaluateNeverRaises ==
  \A i \in 1..Len(resolved) :
    LET r == resolved[i] IN
    /\ ~r.raised
    /\ r.result.verdict \in Verdicts
    /\ r.path # "success" =>
         /\ r.result.verdict = "UNCERTAIN"
         /\ r.result.confidence = 0
         /\ r.thrown # NoError
         /\ r.result.error = r.thrown.message
         /\ r.result.errorType = categorizeError(r.thrown)
         /\ r.result.errorType \in ErrorType

\* A live call has exhausted its retries on timeouts and was resolved
C1_Witness ==
  /\ judgeMode = "live"
  /\ \E i \in 1..Len(resolved) :
       /\ resolved[i].path = "failure"
       /\ resolved[i].invoked = MaxRetries
       /\ resolved[i].result.errorType = "TIMEOUT"
       /\ resolved[i].result.verdict = "UNCERTAIN"

\* A call started in this step with a mock response that trips the circuit
MockTripStarted ==
  \E c \in DOMAIN calls :
    calls[c].pc = "idle" /\ calls'[c].mock = "circuitBreaker"

\* C9 (as stated): the circuit leaves CLOSED for OPEN exactly when
\* failureThreshold evaluate calls have failed with no success in between; a
\* success recorded while CLOSED resets failureCount to 0, and a run of fewer
\* failures leaves the circuit CLOSED.
C9_OpensAtThreshold ==
  [][ /\ (circuitBreaker'.state = "CLOSED"
            => failRun' < circuitBreaker'.failureThreshold)
      /\ (circuitBreaker.state = "CLOSED" /\ circuitBreaker'.state = "OPEN"
            => failRun' = circuitBreaker.failureThreshold)
      /\ (circuitBreaker.state = "CLOSED" /\ circuitBreaker'.state = "CLOSED"
            /\ metrics'.successes > metrics.successes
            => circuitBreaker'.failureCount = 0) ]_vars

\* C9 (amended): the same, unless a mock response with the circuit-trip
\* injection forces the circuit open when its call starts.
C9_OpensAtThresholdOrMockTrip ==
  [][ /\ (circuitBreaker'.state = "CLOSED"
            => /\ failRun' < circuitBreaker'.failureThreshold
               /\ circuitBreaker'.failureCount = failRun')
      /\ (circuitBreaker.state = "CLOSED" /\ circuitBreaker'.state = "OPEN"
            => \/ failRun' = circuitBreaker.failureThreshold
               \/ MockTripStarted)
      /\ (circuitBreaker.state = "CLOSED" /\ circuitBreaker'.state = "CLOSED"
            /\ metrics'.successes > metrics.successes
            => circuitBreaker'.failureCount = 0) ]_vars

\* A failure, a success that reset the count, and then failureThreshold
\* failures in a row have opened the circuit of a live client
C9_Witness ==
  /\ judgeMode = "live"
  /\ circuitBreaker.state = "OPEN"
  /\ failRun = circuitBreaker.failureThreshold
  /\ metrics.successes = 1
  /\ metrics.failures = circuitBreaker.failureThreshold + 1
  /\ metrics.circuitBreakerTrips = 1

\* C10: an evaluate call that starts while the circuit is OPEN and less than
\* resetTimeoutMs after lastFailureTime fails immediately: no provider or
\* mock invocation is made for it, the circuit stays OPEN and the call
\* resolves, in the same step, to UNCERTAIN with confidence 0.
C10_OpenCircuitRejects ==
  [][ ( /\ metrics'.requests = metrics.requests + 1
        /\ circuitBreaker.state = "OPEN"
        /\ now - circuitBreaker.lastFailureTime < circuitBreaker.resetTimeoutMs )
      => /\ circuitBreaker'.state = "OPEN"
         /\ calls' = calls
         /\ Len(resolved') = 1
         /\ resolved'[1].invoked = 0
         /\ resolved'[1].result.verdict = "UNCERTAIN"
         /\ resolved'[1].result.confidence = 0 ]_vars

\* A call was rejected by the open circuit
C10_Witness ==
  /\ circuitBreaker.state = "OPEN"
  /\ now - circuitBreaker.lastFailureTime < circuitBreaker.resetTimeoutMs
  /\ Len(resolved) = 1
  /\ resolved[1].path = "rejected"
  /\ resolved[1].invoked = 0

\* An evaluate call starts in this step while the circuit is OPEN and the
\* reset timeout has elapsed since lastFailureTime
ProbeStarts ==
  /\ metrics'.requests = metrics.requests + 1
  /\ circuitBreaker.state = "OPEN"
  /\ now - circuitBreaker.lastFailureTime >= circuitBreaker.resetTimeoutMs

\* C11: when the circuit is OPEN and an evaluate call starts at least
\* resetTimeoutMs after lastFailureTime, the circuit moves to HALF_OPEN with
\* halfOpenSuccessCount reset to 0, the half-open notification is emitted
\* once, right after the start notification, and the call is admitted: it is
\* not resolved in that step, and with a provider client the provider is
\* invoked for it. (A mock response with the circuit-trip injection reopens
\* the circuit after the move, in the same step.)
C11_HalfOpenAfterTimeout ==
  [][ ProbeStarts
      => /\ Len(emitted') >= 2
         /\ emitted'[1] = "judge:evaluation-start"
         /\ emitted'[2] = "judge:circuit-half-open"
         /\ \A i \in 3..Len(emitted') : emitted'[i] # "judge:circuit-half-open"
         /\ circuitBreaker'.halfOpenSuccessCount = 0
         /\ IF MockTripStarted
            THEN /\ circuitBreaker'.state = "OPEN"
                 /\ emitted' = <<"judge:evaluation-start", "judge:circuit-half-open",
                                 "judge:circuit-open">>
            ELSE /\ circuitBreaker'.state = "HALF_OPEN"
                 /\ Len(emitted') = 2
         /\ resolved' = <<>>
         /\ \E c \in DOMAIN calls :
              /\ calls[c].pc = "idle"
              /\ calls'[c].pc = "pending"
              /\ judgeMode = "live" => calls'[c].invoked = 1 /\ calls'[c].attempt = 1
              /\ judgeMode = "mock" => calls'[c].invoked = 1
              /\ \A d \in DOMAIN calls \ {c} : calls'[d] = calls[d] ]_vars

\* The circuit reopened on a failure in HALF_OPEN after one success there,
\* the reset timeout elapsed again, and the next evaluate call is outstanding
\* in HALF_OPEN with the success count back at 0
C11_Witness ==
  /\ circuitBreaker.state = "HALF_OPEN"
  /\ circuitBreaker.halfOpenSuccessCount = 0
  /\ metrics.successes = 1
  /\ metrics.circuitBreakerTrips = 2
  /\ emitted = <<"judge:evaluation-start", "judge:circuit-half-open">>
  /\ \E c \in DOMAIN calls : calls[c].pc = "pending" /\ calls[c].invoked = 1

\* The successes recorded since the circuit last became HALF_OPEN
HalfOpenSuccesses == metrics.successes - halfOpenSince

\* C12: from HALF_OPEN the circuit returns to CLOSED, with failureCount
\* reset to 0 and the closed notification emitted, exactly when the number
\* of successes recorded since it became HALF_OPEN reaches
\* halfOpenSuccessThreshold; fewer successes leave it HALF_OPEN.
C12_ClosesAtSuccessThreshold ==
  [][ /\ (circuitBreaker'.state = "HALF_OPEN"
            => /\ HalfOpenSuccesses' < circuitBreaker'.halfOpenSuccessThreshold
               /\ circuitBreaker'.halfOpenSuccessCount = HalfOpenSuccesses')
      /\ (circuitBreaker.state = "HALF_OPEN" /\ circuitBreaker'.state = "CLOSED"
            => /\ metrics'.successes = metrics.successes + 1
               /\ HalfOpenSuccesses' = circuitBreaker.halfOpenSuccessThreshold
               /\ circuitBreaker'.failureCount = 0
               /\ \E i \in 1..Len(emitted') : emitted'[i] = "judge:circuit-closed")
      /\ (circuitBreaker.state = "HALF_OPEN" /\ metrics'.successes > metrics.successes
            => circuitBreaker'.state =
                 IF HalfOpenSuccesses' >= circuitBreaker.halfOpenSuccessThreshold
                 THEN "CLOSED" ELSE "HALF_OPEN")
      /\ (circuitBreaker.state # "HALF_OPEN" /\ circuitBreaker'.state = "CLOSED"
            => circuitBreaker.state = "CLOSED") ]_vars

\* The circuit of a live client opened, became HALF_OPEN and has just closed
\* again on the success that reached the threshold
C12_Witness ==
  /\ judgeMode = "live"
  /\ circuitBreaker.state = "CLOSED"
  /\ circuitBreaker.failureCount = 0
  /\ metrics.circuitBreakerTrips = 1
  /\ HalfOpenSuccesses = circuitBreaker.halfOpenSuccessThreshold
  /\ \E i \in 1..Len(emitted) : emitted[i] = "judge:circuit-closed"

\* C13: an evaluate failure recorded while the circuit is HALF_OPEN moves it
\* to OPEN in the same step, whatever failureCount, failureThreshold and
\* halfOpenSuccessCount are: the trip is counted, the open notification is
\* emitted and lastFailureTime is the time of the failure.
C13_HalfOpenFailureReopens ==
  [][ (circuitBreaker.state = "HALF_OPEN" /\ metrics'.failures > metrics.failures)
      => /\ circuitBreaker'.state = "OPEN"
         /\ circuitBreaker'.lastFailureTime = now
         /\ circuitBreaker'.halfOpenSuccessCount = circuitBreaker.halfOpenSuccessCount
         /\ metrics'.circuitBreakerTrips = metrics.circuitBreakerTrips + 1
         /\ emitted' = <<"judge:circuit-open", "judge:evaluation-error">> ]_vars

\* A call failed in HALF_OPEN after one success there (short of the success
\* threshold), and the circuit is OPEN again
C13_Witness ==
  /\ circuitBreaker.state = "OPEN"
  /\ circuitBreaker.halfOpenSuccessCount = 1
  /\ circuitBreaker.halfOpenSuccessCount < circuitBreaker.halfOpenSuccessThreshold
  /\ metrics.circuitBreakerTrips = 2
  /\ emitted = <<"judge:circuit-open", "judge:evaluation-error">>
  /\ Len(resolved) = 1
  /\ resolved[1].path = "failure"

\* The provider is invoked for call c in this step: a first attempt when the
\* call starts, or a further attempt when its retry sleep ends
ProviderInvoked(c) ==
  /\ judgeMode = "live"
  /\ calls[c].pc # "pending"
  /\ calls'[c].pc = "pending"

\* C14: the provider is never invoked while the circuit is OPEN, in any
\* interleaving: neither for a call that starts, nor for a call that was
\* admitted while the circuit was CLOSED or HALF_OPEN and is in its retry
\* loop when another call trips the circuit.
C14_NoProviderCallWhileOpen ==
  [][ \A c \in DOMAIN calls :
        ProviderInvoked(c) => circuitBreaker'.state # "OPEN" ]_vars

\* C15: for one evaluate call of a live client the provider is invoked at
\* most maxRetries times, whatever the outcomes of the attempts, and the
\* retries counter grows by at most maxRetries - 1 for that call: it grows by
\* one, when a failed attempt that is not the last one is followed by a sleep.
C15_AtMostMaxRetriesAttempts ==
  [][ /\ \A c \in DOMAIN calls :
           /\ calls'[c].invoked <= MaxRetries
           /\ judgeMode = "live" => calls'[c].invoked = calls'[c].attempt
      /\ \A i \in 1..Len(resolved') : resolved'[i].invoked <= MaxRetries
      /\ metrics'.retries <= metrics.retries + 1
      /\ (metrics'.retries = metrics.retries + 1
            => \E c \in DOMAIN calls :
                 /\ calls[c].pc = "pending"
                 /\ calls'[c].pc = "sleeping"
                 /\ calls[c].attempt <= MaxRetries - 1
                 /\ calls'[c].attempt = calls[c].attempt)
      /\ \A c \in DOMAIN calls :
           (calls[c].pc = "sleeping" /\ calls'[c] # calls[c])
             => /\ calls'[c].pc = "pending"
                /\ calls'[c].attempt = calls[c].attempt + 1 ]_vars

\* The only call made so far used all its attempts: the provider was invoked
\* maxRetries times for it and maxRetries - 1 retries were counted
C15_Witness ==
  /\ judgeMode = "live"
  /\ metrics.requests = 1
  /\ metrics.retries = MaxRetries - 1
  /\ Len(resolved) = 1
  /\ resolved[1].invoked = MaxRetries
  /\ resolved[1].path = "failure"

\* C16: when a provider attempt fails with a category outside TIMEOUT,
\* RATE_LIMIT, SERVER_ERROR and NETWORK_ERROR, the retry loop ends at that
\* attempt: the call does not sleep for another attempt but resolves, in the
\* same step, to UNCERTAIN, with no provider call beyond those made so far.
C16_NonRetryableEndsLoop ==
  [][ \A c \in DOMAIN calls :
        (judgeMode = "live" /\ calls[c].pc = "pending" /\ calls'[c] # calls[c])
        => /\ calls'[c].pc \in {"sleeping", "idle"}
           /\ calls'[c].pc = "sleeping"
                => /\ calls'[c].lastErrorType
                        \in {"TIMEOUT", "RATE_LIMIT", "SERVER_ERROR", "NETWORK_ERROR"}
                   /\ calls'[c].invoked = calls[c].invoked
           /\ calls'[c].pc = "idle"
                => \E i \in 1..Len(resolved') :
                     /\ resolved'[i].call = c
                     /\ resolved'[i].invoked = calls[c].invoked
                     /\ resolved'[i].path \in {"success", "failure"}
                     /\ resolved'[i].path = "failure"
                          => /\ resolved'[i].result.verdict = "UNCERTAIN"
                             /\ (categorizeError(resolved'[i].thrown)
                                   \in {"TIMEOUT", "RATE_LIMIT", "SERVER_ERROR",
                                        "NETWORK_ERROR"}
                                 => calls[c].attempt = MaxRetries) ]_vars

\* The first attempt of a call failed with a PARSE_ERROR and the call
\* resolved at once, with attempts left and no retry counted
C16_Witness ==
  /\ judgeMode = "live"
  /\ metrics.retries = 0
  /\ Len(resolved) = 1
  /\ resolved[1].path = "failure"
  /\ resolved[1].result.errorType = "PARSE_ERROR"
  /\ resolved[1].result.verdict = "UNCERTAIN"
  /\ resolved[1].invoked = 1
  /\ resolved[1].invoked < MaxRetries

\* How often a notification occurs among those of the latest step
Emissions(name) ==
  Cardinality({i \in 1..Len(emitted) : emitted[i] = name})

\* The circuit went into OPEN in this step: it was not OPEN before, or it
\* was and this step first took it to HALF_OPEN
CircuitOpens ==
  /\ circuitBreaker'.state = "OPEN"
  /\ \/ circuitBreaker.state # "OPEN"
     \/ \E i \in 1..Len(emitted') : emitted'[i] = "judge:circuit-half-open"

\* C21: a step in which the circuit goes into OPEN (from CLOSED or from
\* HALF_OPEN) increments circuitBreakerTrips by one and emits one
\* circuit-open notification; every other step (failures of calls that
\* complete while the circuit is OPEN and rejections included) leaves the
\* counter as it is and emits none.
C21_OneTripPerOpening ==
  [][/\ metrics'.circuitBreakerTrips =
          metrics.circuitBreakerTrips + (IF CircuitOpens THEN 1 ELSE 0)
     /\ Emissions("judge:circuit-open")' = (IF CircuitOpens THEN 1 ELSE 0)]_vars

\* A call that was under way when the circuit opened has failed while the
\* circuit was OPEN, and the circuit has tripped once.
C21_Witness ==
  /\ judgeMode = "live"
  /\ circuitBreaker.state = "OPEN"
  /\ circuitBreaker.failureCount = FailureThreshold + 1
  /\ metrics.circuitBreakerTrips = 1
  /\ Len(resolved) = 1
  /\ resolved[1].path = "failure"
  /\ Emissions("judge:circuit-open") = 0

\* The evaluate calls that have started and not returned
InFlight == {c \in DOMAIN calls : calls[c].pc # "idle"}

\* Every evaluate call made is counted as a success, as a failure or is in
\* flight
Accounted ==
  metrics.requests = metrics.successes + metrics.failures + Cardinality(InFlight)

\* C22: under every interleaving of concurrent evaluate calls, requests =
\* successes + failures + calls in flight at every moment; no counter ever
\* decreases; and no increment is lost: requests grows by the number of calls
\* that started in the step, successes and failures by the numbers of calls
\* that completed and failed in it.
C22_MetricsAccounted ==
  [][/\ Accounted /\ Accounted'
     /\ \A k \in DOMAIN metrics : metrics'[k] >= metrics[k]
     /\ metrics'.requests = metrics.requests + Emissions("judge:evaluation-start")'
     /\ metrics'.successes = metrics.successes + Emissions("judge:evaluation-complete")'
     /\ metrics'.failures = metrics.failures + Emissions("judge:evaluation-error")']_vars

\* All the calls of the behaviour were made, some succeeded, some failed
\* after a retry, and none is in flight
C22_Witness ==
  /\ judgeMode = "live"
  /\ metrics.requests = MaxRequests
  /\ InFlight = {}
  /\ metrics.successes > 0
  /\ metrics.failures > 0
  /\ metrics.retries > 0
  /\ metrics.requests = metrics.successes + metrics.failures

\* A provider call (an attempt of call c, or its mock stand-in) failed in
\* this step with an error categorized RATE_LIMIT: the call sleeps before
\* its next attempt, or evaluate returned the failure
RateLimitFailure(c) ==
  /\ calls[c].pc = "pending"
  /\ \/ calls'[c].pc = "sleeping" /\ calls'[c].lastErrorType = "RATE_LIMIT"
     \/ \E k \in 1..Len(resolved') :
          /\ resolved'[k].call = c
          /\ resolved'[k].path = "failure"
          /\ resolved'[k].result.errorType = "RATE_LIMIT"

\* C25: when an attempt fails with RATE_LIMIT and the retry loop goes on,
\* the delay before the next attempt is at least the exponential backoff
\* and at least the retryAfterMs of that failure: the seconds parsed from its
\* message times 1000, or 60000 ms when the message has none.
C25_DelayCoversRetryAfter ==
  [][\A c \in DOMAIN calls :
       (/\ calls[c].pc = "pending"
        /\ calls'[c].pc = "sleeping"
        /\ calls'[c].lastErrorType = "RATE_LIMIT")
         => /\ opResult'.call = c
            /\ opResult'.delay >= InitialDelayMs * pow(BackoffMultiplier, opResult'.attempt - 1)
            /\ opResult'.delay >=
                 (IF retryAfterMatch(opResult'.error.message) # -1
                  THEN retryAfterMatch(opResult'.error.message) * 1000
                  ELSE 60000)]_vars

\* C24: in every circuit state, a provider-call failure categorized
\* RATE_LIMIT leaves the client marked rate limited with a positive
\* retryAfterMs; a successful evaluate clears the mark; and nothing else in
\* an evaluate call clears it.
C24_RateLimitMarked ==
  [][/\ (\E c \in DOMAIN calls : RateLimitFailure(c))
          => rateLimitState'.isLimited /\ rateLimitState'.retryAfterMs > 0
     /\ Emissions("judge:evaluation-complete")' > 0 => ~rateLimitState'.isLimited
     /\ (rateLimitState.isLimited /\ ~rateLimitState'.isLimited)
          => Emissions("judge:evaluation-complete")' > 0]_vars

(***************************************************************************)
(* Properties of the policy engine                                         *)
(***************************************************************************)
\* The engine has returned the verdict of an evaluation
Evaluated == evaluation.pc = "done"

\* C2: for a policy with N rules and a known strategy (the policy is not
\* edited while the evaluation runs), PolicyEngine.evaluate returns exactly
\* N rule results, the i-th of them for the i-th rule of the policy, in
\* parallel and in sequential mode, whichever rule evaluations failed.
C2_OneResultPerRule ==
  (Evaluated /\ evaluation.policy.evaluation_strategy \in Strategies)
    => /\ Len(verdict.rule_results) = Len(evaluation.rulesAtStart)
       /\ \A i \in 1..Len(evaluation.rulesAtStart) :
            /\ verdict.rule_results[i].rule_id = evaluation.rulesAtStart[i]
            /\ verdict.rule_results[i].verdict \in Verdicts

\* A parallel evaluation of a full policy has returned; the call of its
\* first rule failed and the call of its last rule passed
C2_Witness ==
  /\ Evaluated
  /\ evaluation.parallel
  /\ evaluation.policy.evaluation_strategy \in Strategies
  /\ Len(verdict.rule_results) = MaxPolicyRules
  /\ verdict.rule_results[1].verdict = "UNCERTAIN"
  /\ verdict.rule_results[1].confidence = 0
  /\ verdict.rule_results[MaxPolicyRules].verdict = "PASS"

\* PolicyEngine.evaluate ends in this step
EvaluationEnds ==
  /\ evaluation'.pc \in {"done", "raised"}
  /\ \/ evaluation.pc = "running"
     \/ \E i \in 1..Len(emitted') : emitted'[i] = "policy:evaluation-start"

\* C17: PolicyEngine.evaluate with a policy whose evaluation_strategy is not
\* one of all, any, weighted_threshold (a name Object.prototype defines
\* included) does not raise: it returns final_verdict = ERROR, passed = false,
\* no rule results and an error message, and the last notification it emits
\* is the evaluation-error one, with no evaluation-complete notification.
C17_UnknownStrategyReturnsError ==
  [][ (EvaluationEnds /\ evaluation'.policy.evaluation_strategy \notin Strategies)
      => /\ evaluation'.pc = "done"
         /\ verdict'.final_verdict = "ERROR"
         /\ ~verdict'.passed
         /\ verdict'.rule_results = <<>>
         /\ verdict'.error # ""
         /\ emitted'[Len(emitted')] = "policy:evaluation-error"
         /\ \A i \in 1..Len(emitted') : emitted'[i] # "policy:evaluation-complete" ]_vars

\* An evaluation under an unknown strategy returned ERROR after the judge
\* was called for every rule of the policy
C17_Witness ==
  /\ Evaluated
  /\ evaluation.policy.evaluation_strategy = "majority"
  /\ Len(evaluation.results) = MaxPolicyRules
  /\ verdict.final_verdict = "ERROR"
  /\ verdict.rule_results = <<>>
  /\ emitted[Len(emitted)] = "policy:evaluation-error"

\* C38: PolicyEngine.evaluate looks the strategy up only after all rule
\* evaluations have completed: an evaluation under an unknown strategy that
\* returned ERROR with empty rule_results has made one judge call per rule
\* of its policy, each of which resolved with a verdict and was counted in
\* the judge client's metrics.
C38_UnknownStrategyCallsJudge ==
  (Evaluated /\ evaluation.policy.evaluation_strategy \notin Strategies)
    => /\ verdict.final_verdict = "ERROR"
       /\ verdict.rule_results = <<>>
       /\ Len(evaluation.results) = Len(evaluation.rulesAtStart)
       /\ \A i \in 1..Len(evaluation.results) :
            /\ evaluation.results[i].rule_id = evaluation.rulesAtStart[i]
            /\ evaluation.results[i].verdict \in Verdicts
       /\ metrics.requests >= Len(evaluation.rulesAtStart)
       /\ metrics.successes + metrics.failures >= Len(evaluation.rulesAtStart)

\* A sequential evaluation under an unknown strategy returned ERROR; the
\* judge call of its first rule had tripped the circuit and the call of its
\* last rule was rejected by the open circuit
C38_Witness ==
  /\ Evaluated
  /\ ~evaluation.parallel
  /\ evaluation.policy.evaluation_strategy \notin Strategies
  /\ Len(evaluation.rulesAtStart) = MaxPolicyRules
  /\ verdict.final_verdict = "ERROR"
  /\ verdict.rule_results = <<>>
  /\ circuitBreaker.state = "OPEN"
  /\ metrics.circuitBreakerTrips = 1
  /\ metrics.failures = MaxPolicyRules

\* C32: every evaluation resolves, provided each provider attempt returns or
\* fails: a judge call makes at most maxRetries attempts and then completes,
\* and PolicyEngine.evaluate returns a verdict, in parallel and in
\* sequential mode and in every circuit state.
C32_EvaluationResolves ==
  /\ [](\A c \in DOMAIN calls : calls[c].attempt <= MaxRetries)
  /\ \A c \in 1..MaxPolicyRules : (calls[c].pc # "idle") ~> (calls[c].pc = "idle")
  /\ (evaluation.pc = "running") ~> (evaluation.pc = "done" /\ verdict # NoVerdict)

\* A sequential evaluation returned its verdict with the circuit open: the
\* judge call of its first rule failed after maxRetries attempts
C32_Witness ==
  /\ Evaluated
  /\ ~evaluation.parallel
  /\ verdict # NoVerdict
  /\ Len(evaluation.results) = MaxPolicyRules
  /\ circuitBreaker.state = "OPEN"
  /\ \E i \in 1..Len(resolved) : resolved[i].invoked = MaxRetries
  /\ \A c \in DOMAIN calls : calls[c].pc = "idle"

\* The final verdicts an aggregation strategy can produce
AggregationVerdicts == {"ALLOW", "BLOCK", "WARN", "REDACT"}

\* How often a notification occurs among the first n of the latest step
EmissionsUpTo(n, name) ==
  Cardinality({i \in 1..n : emitted[i] = name})

\* C33: every PolicyEngine.evaluate call emits policy:evaluation-start
\* first, and then, when it returns, exactly one of
\* policy:evaluation-complete and policy:evaluation-error, the error one
\* exactly when the returned final_verdict is ERROR; every
\* JudgeService.evaluate call emits judge:evaluation-start when it starts and
\* exactly one of judge:evaluation-complete and judge:evaluation-error when
\* it returns, never before its start.
C33_LifecycleNotifications ==
  [][/\ Emissions("policy:evaluation-start")' =
          (IF evaluation.pc # "running" /\ evaluation'.pc # "idle"
              /\ (evaluation'.pc = "running" \/ EvaluationEnds) THEN 1 ELSE 0)
     /\ Emissions("policy:evaluation-start")' = 1
          => emitted'[1] = "policy:evaluation-start"
     /\ Emissions("policy:evaluation-complete")' + Emissions("policy:evaluation-error")' =
          (IF EvaluationEnds THEN 1 ELSE 0)
     /\ EvaluationEnds
          => /\ evaluation'.pc = "done"
             /\ emitted'[Len(emitted')] \in {"policy:evaluation-complete",
                                             "policy:evaluation-error"}
             /\ emitted'[Len(emitted')] = "policy:evaluation-error"
                  <=> verdict'.final_verdict = "ERROR"
     /\ Cardinality(InFlight)' =
          Cardinality(InFlight) + Emissions("judge:evaluation-start")'
            - Emissions("judge:evaluation-complete")' - Emissions("judge:evaluation-error")'
     /\ \A n \in 1..Len(emitted') :
          EmissionsUpTo(n, "judge:evaluation-complete")'
            + EmissionsUpTo(n, "judge:evaluation-error")'
          <= Cardinality(InFlight) + EmissionsUpTo(n, "judge:evaluation-start")']_vars

\* A parallel evaluation returned a verdict other than ERROR in the step in
\* which the last judge call of its rules completed, after another of them
\* had failed
C33_Witness ==
  /\ Evaluated
  /\ evaluation.parallel
  /\ verdict.final_verdict \in AggregationVerdicts
  /\ Len(verdict.rule_results) = MaxPolicyRules
  /\ verdict.rule_results[1].confidence = 0
  /\ emitted = <<"judge:evaluation-complete", "policy:evaluation-complete">>

\* C18: rule-level failures never yield ERROR: for a policy with one of the
\* three known strategies, whatever the outcomes of the judge calls of its
\* rules (failures, timeouts, rate limits, rejections by the open circuit),
\* PolicyEngine.evaluate does not raise and returns a final verdict among
\* ALLOW, BLOCK, WARN and REDACT, the one the strategy produces from the
\* rule results.
C18_RuleFailuresNeverError ==
  /\ evaluation.pc # "raised"
  /\ (Evaluated /\ evaluation.policy.evaluation_strategy \in Strategies)
       => /\ verdict.final_verdict \in AggregationVerdicts
          /\ Len(verdict.rule_results) = Len(evaluation.rulesAtStart)
          /\ verdict.final_verdict =
               Aggregation[verdict.rule_results][evaluation.policy].final_verdict
          /\ verdict.passed = Aggregation[verdict.rule_results][evaluation.policy].passed

\* A weighted evaluation of a full policy returned a verdict although the
\* call of every rule failed and the circuit is open
C18_Witness ==
  /\ Evaluated
  /\ evaluation.policy.evaluation_strategy = "weighted_threshold"
  /\ circuitBreaker.state = "OPEN"
  /\ Len(verdict.rule_results) = MaxPolicyRules
  /\ \A i \in 1..Len(verdict.rule_results) :
       verdict.rule_results[i].verdict = "UNCERTAIN" /\ verdict.rule_results[i].confidence = 0
  /\ verdict.final_verdict \in AggregationVerdicts

\* The policy the evaluation in flight (or the last one) works with
PolicyUsed ==
  [name |-> evaluation.policy_name,
   evaluation_strategy |-> evaluation.policy.evaluation_strategy,
   default_action |-> evaluation.policy.default_action,
   threshold |-> evaluation.policy.threshold,
   rules |-> evaluation.rulesAtStart]

\* The latest of the setRuntimePolicy and clearRuntimePolicy calls so far
LastOverrideOp ==
  LET at == {i \in 1..Len(policyOps) :
               policyOps[i] \in {"setRuntimePolicy", "clearRuntimePolicy"}}
  IN IF at = {} THEN "none"
     ELSE policyOps[CHOOSE i \in at : \A j \in at : j <= i]

\* C19: an evaluate call works with the per-call policy if its options give
\* one, else with the policy of the latest setRuntimePolicy call if no
\* clearRuntimePolicy call followed it, else with the configured policy as
\* the configuration updates and reloads so far have left it; the verdict
\* it returns carries the name of that policy.
C19_PolicyPrecedence ==
  [][/\ policyOps' = Append(policyOps, "evaluate")
        => PolicyUsed' =
             IF evaluation'.options.policy # NoPolicy THEN evaluation'.options.policy
             ELSE IF LastOverrideOp = "setRuntimePolicy" THEN runtimePolicy
             ELSE configPolicy
     /\ evaluation'.pc = "done" => verdict'.policy_name = evaluation'.policy_name]_vars

\* An evaluate call without a per-call policy that followed setRuntimePolicy,
\* updateConfig and clearRuntimePolicy works with the updated configured
\* policy.
C19_Witness ==
  /\ policyOps = <<"setRuntimePolicy", "updateConfig", "clearRuntimePolicy", "evaluate">>
  /\ evaluation.options = NoOptions
  /\ evaluation.pc = "done"
  /\ evaluation.policy_name = "updated"
  /\ configPolicy.name = "updated"
  /\ verdict.policy_name = "updated"

\* C20: whatever the evaluation mode and the order of the policy's rules,
\* two engines with the same policy, the same judge configuration and the
\* same provider behaviour for each rule return the same final_verdict and
\* the same passed flag.
C20_ModeAndOrderIndependent ==
  (Evaluated /\ firstVerdict # NoVerdict)
    => /\ verdict.final_verdict = firstVerdict.final_verdict
       /\ verdict.passed = firstVerdict.passed

\* C23: the rules whose results an evaluate call aggregated are the rules its
\* policy had when the call started, each once and in that order, with the
\* action and the weight they had then, whatever addRule, updateRule and
\* deleteRule did to the policy while the evaluation was in flight.
C23_RulesFixedAtStart ==
  (Evaluated /\ verdict.final_verdict # "ERROR")
    => /\ Len(verdict.rule_results) = Len(evaluation.rulesAtStart)
       /\ \A i \in 1..Len(evaluation.rulesAtStart) :
            /\ verdict.rule_results[i].rule_id = evaluation.rulesAtStart[i]
            /\ verdict.rule_results[i].action = RuleAt(evaluation.rulesAtStart[i]).on_fail
            /\ verdict.rule_results[i].weight =
                 (IF RuleAt(evaluation.rulesAtStart[i]).weight = 0 THEN 10
                  ELSE RuleAt(evaluation.rulesAtStart[i]).weight)

\* The ids of a rule list
IdsOf(rules) == { rules[i] : i \in 1..Len(rules) }

\* A call that the rule operations must refuse on the rule list rules
MustRefuse(call, rules) ==
  \/ call.op = "addRule" /\ call.id \in IdsOf(rules)
  \/ call.op = "updateRule" /\ call.ruleId \notin IdsOf(rules)
  \/ call.op = "updateRule" /\ call.id # call.ruleId /\ call.id \in IdsOf(rules)
  \/ call.op = "deleteRule" /\ call.ruleId \notin IdsOf(rules)

\* The step is a call of addRule, updateRule or deleteRule
RuleOperationStep ==
  \/ \E rule \in 1..MaxRules : AddRule(rule)
  \/ \E ruleId, id \in 1..MaxRules : UpdateRule(ruleId, [id |-> id])
  \/ \E ruleId \in 1..MaxRules : DeleteRule(ruleId)

RuleNotifications == {"policy:rule-added", "policy:rule-updated", "policy:rule-deleted"}

\* C27: addRule with an id that exists, updateRule and deleteRule with an id
\* that does not exist, and updateRule renaming a rule to the id of another
\* rule return success = false, leave the rule list of the policy as it was
\* and emit no rule-added, rule-updated or rule-deleted notification.
C27_RefusedLeavesRules ==
  [][(RuleOperationStep /\ MustRefuse(opResult'.call, configPolicy.rules))
       => /\ opResult'.success = FALSE
          /\ configPolicy'.rules = configPolicy.rules
          /\ configFile' = configFile
          /\ \A i \in 1..Len(emitted') : emitted'[i] \notin RuleNotifications]_vars

\* A rename of rule 1 to the id of rule 2 was refused
C27_Witness ==
  /\ opResult # NoOpResult
  /\ opResult.call = [op |-> "updateRule", ruleId |-> 1, id |-> 2]
  /\ opResult.success = FALSE
  /\ configPolicy.rules = <<1, 2>>

\* C28: after any sequence of addRule, updateRule, deleteRule and their
\* async variants, from a policy whose rule ids are pairwise distinct, the
\* rule ids of the configured policy in memory are pairwise distinct.
C28_RuleIdsDistinct ==
  \A i, j \in 1..Len(configPolicy.rules) :
    configPolicy.rules[i] = configPolicy.rules[j] => i = j

\* validatePolicy has returned
Validated == opResult # NoOpResult

\* C29: validatePolicy returns valid = true only for a policy whose
\* evaluation_strategy is one of all, any, weighted_threshold and whose
\* threshold, when the strategy is weighted_threshold and a threshold is
\* given, lies in [0,1]; valid is false exactly when errors are reported.
C29_ValidOnlyKnownStrategy ==
  Validated =>
    /\ opResult.result.valid = (Len(opResult.result.errors) = 0)
    /\ opResult.result.valid =>
         /\ opResult.policy.evaluation_strategy \in Strategies
         /\ (opResult.policy.evaluation_strategy = "weighted_threshold"
               /\ opResult.policy.threshold.defined)
              => (opResult.policy.threshold.value >= 0
                    /\ opResult.policy.threshold.value <= 10)

\* normalizeConfidence has returned
Normalized == opResult # NoOpResult

\* The number that the raw confidence stands for: a number itself, or what a
\* string parses to
RawValue == parseFloat(opResult.raw)

\* C30: normalizeConfidence returns a value in [0,1] for every raw input: a
\* value in [0,1] is kept, a value above 1 is divided by 100 and capped at 1,
\* a negative value becomes 0, and a missing or non-numeric value becomes 0.5
\* (values in ten-thousandths, raw numbers in hundredths).
C30_ConfidenceInRange ==
  Normalized =>
    /\ opResult.confidence >= 0 /\ opResult.confidence <= 10000
    /\ (opResult.raw.type \in {"undefined", "null"}) => opResult.confidence = 5000
    /\ (opResult.raw.type \in {"number", "string"}) =>
         /\ RawValue.class = "NaN" => opResult.confidence = 5000
         /\ RawValue.class = "Infinity" => opResult.confidence = 10000
         /\ RawValue.class = "-Infinity" => opResult.confidence = 0
         /\ (RawValue.class = "finite" /\ RawValue.value < 0) => opResult.confidence = 0
         /\ (RawValue.class = "finite" /\ RawValue.value >= 0 /\ RawValue.value <= 100)
              => opResult.confidence = 100 * RawValue.value
         /\ (RawValue.class = "finite" /\ RawValue.value > 100 /\ RawValue.value <= 10000)
              => opResult.confidence = RawValue.value
         /\ (RawValue.class = "finite" /\ RawValue.value > 10000)
              => opResult.confidence = 10000

\* A negative raw confidence was normalized to 0
C30_Witness ==
  /\ Normalized
  /\ opResult.raw = RawNumber(Finite(0 - 50))
  /\ opResult.confidence = 0

\* C31: resetCircuitBreaker, in any circuit state, sets state = CLOSED,
\* failureCount = 0 and halfOpenSuccessCount = 0, clears the rate-limited
\* flag, emits judge:circuit-reset and leaves every metrics counter, every
\* other circuit setting and every call in flight as it was.
C31_ResetCloses ==
  [][ResetCircuitBreaker
       => /\ circuitBreaker' = [circuitBreaker EXCEPT !.state = "CLOSED",
                                                      !.failureCount = 0,
                                                      !.halfOpenSuccessCount = 0]
          /\ rateLimitState' = [rateLimitState EXCEPT !.isLimited = FALSE]
          /\ emitted' = <<"judge:circuit-reset">>
          /\ metrics' = metrics
          /\ calls' = calls]_vars

\* The circuit was reset while it was OPEN and the client rate limited
C31_Witness ==
  /\ emitted = <<"judge:circuit-reset">>
  /\ circuitBreaker.state = "CLOSED"
  /\ circuitBreaker.lastFailureTime > 0
  /\ metrics.circuitBreakerTrips = 1
  /\ metrics.rateLimits > 0
  /\ rateLimitState.retryAfterMs > 0
  /\ ~rateLimitState.isLimited
  /\ metrics.successes = 0

\* C37: after any sequence of evaluate outcomes, resetCircuitBreaker calls
\* and updateConfig calls, whenever the circuit is CLOSED failureCount is
\* strictly below failureThreshold.
C37_ClosedBelowThreshold ==
  circuitBreaker.state = "CLOSED"
    => circuitBreaker.failureCount < circuitBreaker.failureThreshold

\* C34: resetTimeoutMs is the time the circuit spends in OPEN: a call that
\* starts while the circuit is OPEN, at least resetTimeoutMs after the
\* circuit's transition into OPEN, is admitted as the HALF_OPEN probe,
\* however many calls were rejected in between.
C34_ProbeAfterResetTimeout ==
  [][\A c \in DOMAIN calls :
       (/\ JudgeEvaluate(c, 1, "other")
        /\ circuitBreaker.state = "OPEN"
        /\ now - probe.openedAt >= circuitBreaker.resetTimeoutMs)
       => /\ circuitBreaker'.state = "HALF_OPEN"
          /\ calls'[c].pc = "pending"]_vars

\* C35: while the circuit is HALF_OPEN at most halfOpenSuccessThreshold
\* calls are admitted between the transition into HALF_OPEN and the circuit
\* leaving HALF_OPEN.
C35_HalfOpenAdmitsLimited ==
  circuitBreaker.state = "HALF_OPEN"
    => probe.halfOpenAdmitted <= circuitBreaker.halfOpenSuccessThreshold

\* C36: a success of a call that was admitted while the circuit was CLOSED
\* and that completes while the circuit is HALF_OPEN does not count towards
\* halfOpenSuccessThreshold and does not close the circuit.
C36_EarlierSuccessNotCounted ==
  [][\A c \in DOMAIN calls :
       (/\ probe.admitted[c] = "CLOSED"
        /\ probe'.admitted[c] = "none"
        /\ metrics'.successes = metrics.successes + 1
        /\ circuitBreaker.state = "HALF_OPEN")
       => /\ circuitBreaker'.state = "HALF_OPEN"
          /\ circuitBreaker'.halfOpenSuccessCount = circuitBreaker.halfOpenSuccessCount]_vars

\* C4: under the ALL strategy, when no rule result is FAIL and at least one
\* is UNCERTAIN (a provider reply of UNCERTAIN, or a rule whose call timed
\* out, failed otherwise or was rejected), the verdict is WARN with
\* passed = true.
C4_AllUncertainWarns ==
  ( /\ Evaluated
    /\ evaluation.policy.evaluation_strategy = "all"
    /\ \A i \in 1..Len(verdict.rule_results) : verdict.rule_results[i].verdict # "FAIL"
    /\ \E i \in 1..Len(verdict.rule_results) : verdict.rule_results[i].verdict = "UNCERTAIN" )
    => verdict.final_verdict = "WARN" /\ verdict.passed

\* An ALL evaluation returned WARN after the call of one rule timed out and
\* the other rules passed
C4_Witness ==
  /\ Evaluated
  /\ evaluation.policy.evaluation_strategy = "all"
  /\ metrics.timeouts > 0
  /\ Len(verdict.rule_results) = MaxPolicyRules
  /\ verdict.rule_results[1].verdict = "UNCERTAIN"
  /\ verdict.rule_results[1].confidence = 0
  /\ \A i \in 2..Len(verdict.rule_results) : verdict.rule_results[i].verdict = "PASS"
  /\ verdict.final_verdict = "WARN"
  /\ verdict.passed

====
